---- MODULE Spec2Model ----
(***************************************************************************)
(* coder/create-task-action: the run of CoderTaskAction (action.ts) over   *)
(* RealCoderClient (coder-client.ts), with the remote Coder deployment and *)
(* the clock as the environment.                                           *)
(*                                                                         *)
(* An optional value (T | undefined) is a sequence: <<>> is undefined and  *)
(* <<v>> is the value v.  A string built by interpolation is the tuple of  *)
(* its parts.  An HTTP response is [status, body]; a body is a record with *)
(* a kind, and a structural schema accepts exactly the bodies of its kind. *)
(***************************************************************************)
EXTENDS Integers, Sequences, FiniteSets, TLC

\* ---------------------------------------------------------------- bounds

\* The fetches of one waitForTaskActive call that the remote answers at once;
\* every later fetch of that call takes SlowFetchMs.
MaxFastPolls == 4
\* The time a slow get-task-by-id round trip takes.
SlowFetchMs == 600000
\* Runs of the action against the same remote (SeqSpec).
MaxRuns == 2

\* ------------------------------------------------------ program constants

\* waitForTaskActive(..., timeoutMs = 120000)
DefaultTimeoutMs == 120000
\* const pollIntervalMs = 2000
PollIntervalMs == 2000
\* run(): waitForTaskActive(..., 1_200_000)
RunWaitTimeoutMs == 1200000

\* ------------------------------------------------------------ data model

Undefined == <<>>
Some(v) == <<v>>
IsDefined(o) == o # <<>>

\* ExperimentalCoderSDKTaskStatusSchema
TaskStatuses == {"pending", "initializing", "active", "paused", "unknown", "error"}
\* ExperimentalCoderSDKTaskStateEntrySchema.state, and "null" for current_state: null
TaskStates == {"idle", "working", "complete", "failed"}
CurrentStates == TaskStates \cup {"null"}

\* new CoderAPIError(message, statusCode, response?) and the other thrown values:
\* name "CoderAPIError" | "Error" | "ZodError" | "string" (a thrown string).
\* args are the values interpolated into the message.
MkError(name, statusCode, message, args, response) ==
    [name |-> name, statusCode |-> statusCode, message |-> message,
     args |-> args, response |-> response]
CoderAPIError(message, args, statusCode, response) ==
    MkError("CoderAPIError", statusCode, message, args, response)
PlainError(message, args) == MkError("Error", 0, message, args, Undefined)
ZodError == MkError("ZodError", 0, "schema validation failed", <<>>, Undefined)
NoError == MkError("none", 0, "", <<>>, Undefined)

\* What an async call settles to.
Return(v) == [outcome |-> "return", value |-> v, error |-> NoError]
Throw(e) == [outcome |-> "throw", value |-> Undefined, error |-> e]

\* ------------------------------------------------------------ API gateway

MalformedBody == [kind |-> "malformed"]
EmptyBody == [kind |-> "empty"]
UndefinedBody == [kind |-> "undefined"]
\* A body whose read fails: response.text() and response.json() reject
UnreadableBody == [kind |-> "unreadable"]
NoResponse == [status |-> 0, body |-> [kind |-> "none"]]

\* response.ok
ResponseOk(resp) == resp.status >= 200 /\ resp.status <= 299

\* response.text().catch(() => ""): the body text, the empty text when the read fails
BodyText(body) == IF body = UnreadableBody THEN EmptyBody ELSE body

\* The rejection of response.json() on a body that cannot be read
BodyReadError == MkError("TypeError", 0, "body read failed", <<>>, Undefined)

\* A request that lets the failure of reading an error body out
Request_ReadFailureThrows(resp) ==
    IF ~ResponseOk(resp)
    THEN IF resp.body = UnreadableBody THEN Throw(BodyReadError)
         ELSE Throw(CoderAPIError("Coder API error", <<>>, resp.status, Some(resp.body)))
    ELSE IF resp.status = 204 \/ resp.body = EmptyBody
         THEN Return(UndefinedBody)
         ELSE IF resp.body = UnreadableBody THEN Throw(BodyReadError)
         ELSE Return(resp.body)

\* A request that parses every successful body as JSON: JSON.parse("") throws
Request_AlwaysParses(resp) ==
    IF ~ResponseOk(resp)
    THEN Throw(CoderAPIError("Coder API error", <<>>, resp.status,
                             Some(BodyText(resp.body))))
    ELSE IF resp.body = UnreadableBody THEN Throw(BodyReadError)
    ELSE IF resp.body = EmptyBody
    THEN Throw(MkError("SyntaxError", 0, "Unexpected end of JSON input", <<>>, Undefined))
    ELSE Return(resp.body)

\* RealCoderClient.request: a non-2xx response throws CoderAPIError carrying the
\* status and the body text; 204 or content-length 0 (the empty body) yields
\* undefined; otherwise the parsed JSON body.
Request(resp) ==
    IF ~ResponseOk(resp)
    THEN Throw(CoderAPIError("Coder API error", <<>>, resp.status,
                             Some(BodyText(resp.body))))
    ELSE IF resp.status = 204 \/ resp.body = EmptyBody
         THEN Return(UndefinedBody)
         ELSE IF resp.body = UnreadableBody THEN Throw(BodyReadError)
         ELSE Return(resp.body)

\* zod Schema.parse(value): the structural schemas of coder-client.ts.
SchemaParse(kind, value) ==
    IF value.kind = kind THEN Return(value) ELSE Throw(ZodError)

\* ------------------------------------------------------------ RealCoderClient

\* A guard that lets the id 0 through to the request
UserIdRejectedLocally_OnlyUndefined(githubUserId) == githubUserId = Undefined

\* getCoderUserByGitHubId rejects undefined and 0 before building the request.
UserIdRejectedLocally(githubUserId) ==
    githubUserId = Undefined \/ githubUserId[1] = 0

\* A lookup that takes the first of several users
GetCoderUserByGitHubId_First(githubUserId, resp) ==
    IF githubUserId = Undefined
    THEN Throw(CoderAPIError("GitHub user ID cannot be undefined", <<>>, 400, Undefined))
    ELSE IF githubUserId[1] = 0
    THEN Throw(MkError("string", 0, "GitHub user ID cannot be 0", <<>>, Undefined))
    ELSE LET r == Request(resp) IN
         IF r.outcome = "throw" THEN r
         ELSE LET p == SchemaParse("users", r.value) IN
              IF p.outcome = "throw" THEN p
              ELSE IF Len(p.value.users) = 0
              THEN Throw(CoderAPIError("No Coder user found with GitHub user ID",
                                       githubUserId, 404, Undefined))
              ELSE Return(p.value.users[1])

\* getCoderUserByGitHubId(githubUserId), resp the answer to its one request
\* (not looked at when the id is rejected locally).
GetCoderUserByGitHubId(githubUserId, resp) ==
    IF githubUserId = Undefined
    THEN Throw(CoderAPIError("GitHub user ID cannot be undefined", <<>>, 400, Undefined))
    ELSE IF githubUserId[1] = 0
    THEN Throw(MkError("string", 0, "GitHub user ID cannot be 0", <<>>, Undefined))
    ELSE LET r == Request(resp) IN
         IF r.outcome = "throw" THEN r
         ELSE LET p == SchemaParse("users", r.value) IN
              IF p.outcome = "throw" THEN p
              ELSE IF Len(p.value.users) = 0
              THEN Throw(CoderAPIError("No Coder user found with GitHub user ID",
                                       githubUserId, 404, Undefined))
              ELSE IF Len(p.value.users) > 1
              THEN Throw(CoderAPIError("Multiple Coder users found with GitHub user ID",
                                       githubUserId, 409, Undefined))
              ELSE Return(p.value.users[1])

\* getTemplateByOrganizationAndName
GetTemplateByOrganizationAndName(resp) ==
    LET r == Request(resp) IN
    IF r.outcome = "throw" THEN r
    ELSE LET p == SchemaParse("template", r.value) IN
         IF p.outcome = "throw" THEN p ELSE Return(p.value.template)

\* A preset fetch that takes a failed request for an empty list
GetTemplateVersionPresets_Swallow(resp) ==
    LET r == Request(resp) IN
    IF r.outcome = "throw" THEN Return(<<>>)
    ELSE LET p == SchemaParse("presets", r.value) IN
         IF p.outcome = "throw" THEN Return(<<>>) ELSE Return(p.value.presets)

\* getTemplateVersionPresets
GetTemplateVersionPresets(resp) ==
    LET r == Request(resp) IN
    IF r.outcome = "throw" THEN r
    ELSE LET p == SchemaParse("presets", r.value) IN
         IF p.outcome = "throw" THEN p ELSE Return(p.value.presets)

\* A find that takes the first listed task, whatever its name
FindTask_First(tasks, taskName) ==
    IF tasks = <<>> THEN Undefined ELSE Some(Head(tasks))

\* A find that compares the wrong field and so never matches
FindTask_Never(tasks, taskName) == Undefined

\* allTasks.tasks.find((t) => t.name === taskName): the first match, or undefined
RECURSIVE FindTask(_, _)
FindTask(tasks, taskName) ==
    IF tasks = <<>> THEN Undefined
    ELSE IF Head(tasks).name = taskName THEN Some(Head(tasks))
    ELSE FindTask(Tail(tasks), taskName)

\* A lookup that takes every failure of the list request for "no task"
GetTask_AnyErrorIsNull(taskName, resp) ==
    LET r == Request(resp)
        p == IF r.outcome = "throw" THEN r ELSE SchemaParse("tasks", r.value)
    IN IF p.outcome = "throw"
       THEN Return(Undefined)
       ELSE Return(FindTask(p.value.tasks, taskName))

\* A lookup that takes a list body failing the schema for "no task"
GetTask_SchemaFailureIsNull(taskName, resp) ==
    LET r == Request(resp)
        p == IF r.outcome = "throw" THEN r ELSE SchemaParse("tasks", r.value)
    IN IF p.outcome = "throw"
       THEN IF \/ p.error.name = "CoderAPIError" /\ p.error.statusCode = 404
               \/ p.error.name = "ZodError"
            THEN Return(Undefined)
            ELSE p
       ELSE Return(FindTask(p.value.tasks, taskName))

\* getTask: null (Undefined) when no listed task has the name, or when the list
\* request fails with CoderAPIError 404; every other failure is rethrown.
GetTask(taskName, resp) ==
    LET r == Request(resp)
        p == IF r.outcome = "throw" THEN r ELSE SchemaParse("tasks", r.value)
    IN IF p.outcome = "throw"
       THEN IF p.error.name = "CoderAPIError" /\ p.error.statusCode = 404
            THEN Return(Undefined)
            ELSE p
       ELSE Return(FindTask(p.value.tasks, taskName))

\* getTaskById
GetTaskById(resp) ==
    LET r == Request(resp) IN
    IF r.outcome = "throw" THEN r
    ELSE LET p == SchemaParse("task", r.value) IN
         IF p.outcome = "throw" THEN p ELSE Return(p.value.task)

\* createTask
CreateTask(resp) ==
    LET r == Request(resp) IN
    IF r.outcome = "throw" THEN r
    ELSE LET p == SchemaParse("task", r.value) IN
         IF p.outcome = "throw" THEN p ELSE Return(p.value.task)

\* A sendTaskInput that swallows the failure of its request
SendTaskInput_IgnoresFailure(resp) == Return(Undefined)

\* sendTaskInput: the body of a successful response is not looked at
SendTaskInput(resp) ==
    LET r == Request(resp) IN
    IF r.outcome = "throw" THEN r ELSE Return(Undefined)

\* A loop condition that still holds when the elapsed time equals the budget
WaitLoopContinues_Inclusive(nowMs, startMs, timeoutMs) == nowMs - startMs <= timeoutMs

\* waitForTaskActive, the loop condition: Date.now() - startTime < timeoutMs
WaitLoopContinues(nowMs, startMs, timeoutMs) == nowMs - startMs < timeoutMs

\* A ready test that looks at the status alone
TaskIsReady_StatusOnly(task) == task.status = "active"

\* waitForTaskActive, the ready test of one iteration
TaskIsReady(task) ==
    task.status = "active" /\ task.current_state # "null" /\ task.current_state = "idle"

\* An iteration that polls again when the task is in error state
WaitIteration_RetryOnError(got) ==
    IF got.outcome = "throw" THEN [step |-> "throw", error |-> got.error]
    ELSE IF TaskIsReady(got.value) THEN [step |-> "return", error |-> NoError]
    ELSE [step |-> "sleep", error |-> NoError]

\* An iteration that polls again when the fetch fails
WaitIteration_SwallowFetchError(got) ==
    IF got.outcome = "throw" THEN [step |-> "sleep", error |-> NoError]
    ELSE IF got.value.status = "error"
    THEN [step |-> "throw",
          error |-> CoderAPIError("Task entered error state while waiting for active state",
                                  <<>>, 500, Some(got.value))]
    ELSE IF TaskIsReady(got.value) THEN [step |-> "return", error |-> NoError]
    ELSE [step |-> "sleep", error |-> NoError]

\* waitForTaskActive, one iteration after the loop condition held: got is what
\* getTaskById settled to.  "throw": the iteration throws error; "return": the wait
\* returns; "sleep": setTimeout(pollIntervalMs) and back to the loop condition.
WaitIteration(got) ==
    IF got.outcome = "throw" THEN [step |-> "throw", error |-> got.error]
    ELSE IF got.value.status = "error"
    THEN [step |-> "throw",
          error |-> CoderAPIError("Task entered error state while waiting for active state",
                                  <<>>, 500, Some(got.value))]
    ELSE IF TaskIsReady(got.value) THEN [step |-> "return", error |-> NoError]
    ELSE [step |-> "sleep", error |-> NoError]

\* An iteration whose sleep is not awaited
SleepMs_NotAwaited(step) == 0

\* waitForTaskActive, the end of an iteration: setTimeout(resolve, pollIntervalMs)
\* is awaited when the iteration neither threw nor returned
SleepMs(step) == IF step = "sleep" THEN PollIntervalMs ELSE 0

\* waitForTaskActive, after the loop: the timeout error
WaitTimeoutError(timeoutMs) ==
    CoderAPIError("Timeout waiting for task to reach active state (waited ms)",
                  <<timeoutMs>>, 408, Undefined)

\* ------------------------------------------------------------ schemas.ts

\* A URL is [scheme, segs, trailingSlashes, query, fragment]: segs are the host and
\* the path segments.  z.string().url()
\* accepts a string that has a scheme.
Url(segs) == [scheme |-> "https", segs |-> segs, trailingSlashes |-> 0,
              query |-> Undefined, fragment |-> Undefined]
NotAUrl == [scheme |-> "", segs |-> <<"not-a-url">>, trailingSlashes |-> 0,
            query |-> Undefined, fragment |-> Undefined]
IsUrl(u) == u.scheme # ""

\* The empty string where a URL is expected
EmptyUrl == [scheme |-> "", segs |-> <<>>, trailingSlashes |-> 0,
             query |-> Undefined, fragment |-> Undefined]

\* BaseInputsSchema: the required fields
BaseInputsOk(raw) ==
    /\ raw.coderTaskPrompt # ""
    /\ raw.coderToken # ""
    /\ IsUrl(raw.coderURL)
    /\ raw.coderTemplateName # ""
    /\ IsUrl(raw.githubIssueURL)
    /\ (IsDefined(raw.coderOrganization) => raw.coderOrganization[1] # "")
    /\ (IsDefined(raw.coderTaskNamePrefix) => raw.coderTaskNamePrefix[1] # "")

\* An id schema that lets 0 through
WithGithubUserIDOk_AllowsZero(raw) ==
    /\ IsDefined(raw.githubUserID) /\ raw.githubUserID[1] >= 0
    /\ raw.coderUsername = Undefined

\* WithGithubUserIDSchema: githubUserID a number >= 1, coderUsername undefined
WithGithubUserIDOk(raw) ==
    /\ IsDefined(raw.githubUserID) /\ raw.githubUserID[1] >= 1
    /\ raw.coderUsername = Undefined

\* A username schema that does not look at githubUserID
WithCoderUsernameOk_IgnoresId(raw) ==
    IsDefined(raw.coderUsername) /\ raw.coderUsername[1] # ""

\* WithCoderUsernameSchema: githubUserID undefined, coderUsername non-empty
WithCoderUsernameOk(raw) ==
    /\ raw.githubUserID = Undefined
    /\ IsDefined(raw.coderUsername) /\ raw.coderUsername[1] # ""

\* ActionInputsSchema.parse(raw): the union of the two, with the defaults filled in
ActionInputsSchemaParse(raw) ==
    IF BaseInputsOk(raw) /\ (WithGithubUserIDOk(raw) \/ WithCoderUsernameOk(raw))
    THEN Return([raw EXCEPT
            !.coderOrganization =
                 IF IsDefined(@) THEN @ ELSE Some("default"),
            !.coderTaskNamePrefix =
                 IF IsDefined(@) THEN @ ELSE Some("gh"),
            !.commentOnIssue =
                 IF IsDefined(@) THEN @ ELSE Some(TRUE)])
    ELSE Throw(ZodError)

\* ------------------------------------------------------------ CoderTaskAction

\* parseInt(digits, 10) on the segments of digits the model uses
ParseInt == ("42" :> 42) @@ ("43" :> 43) @@ ("042" :> 42)

\* parseGithubIssueURL: the leftmost match of /([^/]+)\/([^/]+)\/issues\/(\d+)/
RECURSIVE IssueMatchFrom(_, _)
IssueMatchFrom(segs, i) ==
    IF i + 3 > Len(segs) THEN Undefined
    ELSE IF segs[i + 2] = "issues" /\ segs[i + 3] \in DOMAIN ParseInt
    THEN Some([githubOrg |-> segs[i], githubRepo |-> segs[i + 1],
               githubIssueNumber |-> ParseInt[segs[i + 3]]])
    ELSE IssueMatchFrom(segs, i + 1)

\* parseGithubIssueURL: if (!this.inputs.githubIssueURL) throws "Missing issue
\* URL"; a URL without a match throws "Invalid issue URL"
ParseGithubIssueURL(url) ==
    LET m == IssueMatchFrom(url.segs, 1) IN
    IF url = EmptyUrl THEN Throw(PlainError("Missing issue URL", <<>>))
    ELSE IF m = Undefined THEN Throw(PlainError("Invalid issue URL", <<>>))
    ELSE Return(m[1])

\* run(): if (!this.inputs.coderTaskNamePrefix || !this.inputs.githubIssueURL)
\* throws; the prefix and the URL are given when neither is undefined or ""
PrefixAndIssueGiven(prefix, url) ==
    /\ prefix # Undefined /\ prefix # Some("")
    /\ url # EmptyUrl

MissingPrefixOrIssue ==
    PlainError("either taskName or both taskNamePrefix and issueURL must be provided", <<>>)

\* A task name that leaves the issue number out
TaskNameString_IgnoresIssue(prefix, issueNumber) == <<prefix, "-", 0>>

\* `${coderTaskNamePrefix}-${githubIssueNumber}`
TaskNameString(prefix, issueNumber) == <<prefix, "-", issueNumber>>

\* run(), the preset selection: no preset requested (undefined or "") takes the
\* first preset with Default; a requested name takes the first preset of that name.
\* A scan for the default preset that does not stop at the first one
RECURSIVE FirstDefaultPreset_Last(_)
FirstDefaultPreset_Last(presets) ==
    IF presets = <<>> THEN Undefined
    ELSE LET rest == FirstDefaultPreset_Last(Tail(presets)) IN
         IF rest # Undefined THEN rest
         ELSE IF Head(presets).Default THEN Some(Head(presets).ID)
         ELSE Undefined

RECURSIVE FirstDefaultPreset(_)
FirstDefaultPreset(presets) ==
    IF presets = <<>> THEN Undefined
    ELSE IF Head(presets).Default THEN Some(Head(presets).ID)
    ELSE FirstDefaultPreset(Tail(presets))

\* A scan for the named preset that does not stop at the first one
RECURSIVE FirstPresetNamed_Last(_, _)
FirstPresetNamed_Last(presets, name) ==
    IF presets = <<>> THEN Undefined
    ELSE LET rest == FirstPresetNamed_Last(Tail(presets), name) IN
         IF rest # Undefined THEN rest
         ELSE IF Head(presets).Name = name THEN Some(Head(presets).ID)
         ELSE Undefined

RECURSIVE FirstPresetNamed(_, _)
FirstPresetNamed(presets, name) ==
    IF presets = <<>> THEN Undefined
    ELSE IF Head(presets).Name = name THEN Some(Head(presets).ID)
    ELSE FirstPresetNamed(Tail(presets), name)

\* !this.inputs.coderTemplatePreset
PresetNotRequested(requested) == requested = Undefined \/ requested[1] = ""

\* A selection that goes on without a preset when the requested name is not listed
SelectPreset_NoCheck(presets, requested) ==
    Return(IF PresetNotRequested(requested)
           THEN FirstDefaultPreset(presets)
           ELSE FirstPresetNamed(presets, requested[1]))

SelectPreset(presets, requested) ==
    LET presetID == IF PresetNotRequested(requested)
                    THEN FirstDefaultPreset(presets)
                    ELSE FirstPresetNamed(presets, requested[1])
    IN IF ~PresetNotRequested(requested) /\ presetID = Undefined
       THEN Throw(PlainError("Preset not found", requested))
       ELSE Return(presetID)

\* generateTaskUrl: coderURL.split(/[?#]/)[0].replace(/\/$/, ""), the deployment
\* URL up to its query or fragment, less one slash at the end, then
\* /tasks/{username}/{taskID}
\* A task URL whose base was cut at the query only
GenerateTaskUrl_QueryOnly(coderURL, coderUsername, taskID) ==
    [base |-> [coderURL EXCEPT !.query = Undefined,
                               !.fragment = IF IsDefined(coderURL.query)
                                            THEN Undefined ELSE @,
                               !.trailingSlashes = IF @ > 0 THEN @ - 1 ELSE 0],
     path |-> <<"tasks", coderUsername, taskID>>]

GenerateTaskUrl(coderURL, coderUsername, taskID) ==
    [base |-> [coderURL EXCEPT !.query = Undefined, !.fragment = Undefined,
                               !.trailingSlashes = IF @ > 0 THEN @ - 1 ELSE 0],
     path |-> <<"tasks", coderUsername, taskID>>]

\* A create request that names the template instead of its active version
CreateTaskRequest_TemplateId(taskName, template, presetID, prompt) ==
    [name |-> taskName,
     template_version_id |-> template.id,
     template_version_preset_id |-> presetID,
     input |-> prompt]

\* run(), the request handed to createTask; JSON.stringify drops an undefined
\* template_version_preset_id
CreateTaskRequest(taskName, template, presetID, prompt) ==
    [name |-> taskName,
     template_version_id |-> template.active_version_id,
     template_version_preset_id |-> presetID,
     input |-> prompt]

\* A wait entered only for a task still pending
NeedsWait_OnlyPending(existingTask) == existingTask.status = "pending"

\* run(), after getTask found a task: whether waitForTaskActive is called
NeedsWait(existingTask) == existingTask.status # "active"

\* A send-input request that leaves the prompt out
SendInputRequest_NoPrompt(existingTask, prompt) ==
    [taskId |-> existingTask.id, input |-> ""]

\* run(), what sendTaskInput is called with: the id of the existing task, the prompt
SendInputRequest(existingTask, prompt) ==
    [taskId |-> existingTask.id, input |-> prompt]

\* ------------------------------------------------------------ environment

HttpResponse(status, body) == [status |-> status, body |-> body]
ErrorBody == [kind |-> "errorText"]

Alice == [id |-> "u1", username |-> "alice", github_com_user_id |-> Some(7)]
Bob == [id |-> "u2", username |-> "bob", github_com_user_id |-> Some(7)]

\* GET /api/v2/users?q=github_com_user_id:{id}
UserResponses ==
    { HttpResponse(200, [kind |-> "users", users |-> us]) :
        us \in {<<>>, <<Alice>>, <<Alice, Bob>>} }
    \cup {HttpResponse(200, MalformedBody), HttpResponse(401, ErrorBody),
          HttpResponse(502, UnreadableBody), HttpResponse(200, UnreadableBody)}

TheTemplate == [id |-> "tpl1", name |-> "tasks-docker", active_version_id |-> "v1"]

\* GET /api/v2/organizations/{org}/templates/{name}
TemplateResponses ==
    {HttpResponse(200, [kind |-> "template", template |-> TheTemplate]),
     HttpResponse(200, MalformedBody), HttpResponse(404, ErrorBody)}

Preset(id, name, default) == [ID |-> id, Name |-> name, Default |-> default]
PresetLists ==
    {<<>>,
     <<Preset("p1", "a", FALSE), Preset("p2", "b", TRUE), Preset("p3", "a", TRUE)>>,
     <<Preset("p1", "a", FALSE), Preset("p2", "b", FALSE)>>}

\* GET /api/v2/templateversions/{versionId}/presets
PresetResponses ==
    { HttpResponse(200, [kind |-> "presets", presets |-> ps]) : ps \in PresetLists }
    \cup {HttpResponse(200, MalformedBody), HttpResponse(500, ErrorBody)}

\* The status and current state the remote reports for a task are its own:
\* they change asynchronously, so each response draws them anew.
TaskShapes == [status : TaskStatuses, current_state : CurrentStates]
ListShapes == [status : TaskStatuses, current_state : {"null", "idle", "working"}]
TaskWith(entry, shape) ==
    [id |-> entry.id, name |-> entry.name,
     status |-> shape.status, current_state |-> shape.current_state]

\* GET /api/experimental/tasks?q=owner:{owner}: the tasks the remote holds
TaskListResponses(held) ==
    { HttpResponse(200, [kind |-> "tasks",
                         tasks |-> [i \in DOMAIN held |-> TaskWith(held[i], shape)]]) :
        shape \in ListShapes }
    \cup {HttpResponse(200, MalformedBody), HttpResponse(404, ErrorBody),
          HttpResponse(500, ErrorBody)}

\* The entry the remote holds under an id
RECURSIVE HeldById(_, _)
HeldById(held, id) ==
    IF held = <<>> THEN Undefined
    ELSE IF Head(held).id = id THEN Some(Head(held))
    ELSE HeldById(Tail(held), id)

\* GET /api/experimental/tasks/{owner}/{taskId}
TaskByIdResponses(held, id) ==
    (IF HeldById(held, id) = Undefined THEN {}
     ELSE { HttpResponse(200, [kind |-> "task",
                               task |-> TaskWith(HeldById(held, id)[1], shape)]) :
              shape \in TaskShapes })
    \cup {HttpResponse(200, MalformedBody), HttpResponse(404, ErrorBody)}

\* The id the remote gives the next task it creates
NextTaskId(held) == Len(held) + 1

\* POST /api/experimental/tasks/{owner}: on 201 the remote holds the new task
CreateResponses(held, req) ==
    { HttpResponse(201, [kind |-> "task",
                         task |-> TaskWith([id |-> NextTaskId(held), name |-> req.name],
                                           shape)]) :
        shape \in {[status |-> "pending", current_state |-> "null"],
                   [status |-> "active", current_state |-> "working"]} }
    \cup {HttpResponse(201, MalformedBody), HttpResponse(500, ErrorBody)}

\* POST /api/experimental/tasks/{owner}/{taskId}/send
SendResponses ==
    {HttpResponse(200, [kind |-> "object"]), HttpResponse(204, EmptyBody),
     HttpResponse(200, EmptyBody), HttpResponse(400, ErrorBody),
     HttpResponse(404, ErrorBody)}

\* ------------------------------------------------------------ state

VARIABLES
    inputs,        \* the object handed to ActionInputsSchema.parse, then its result
    pc,            \* where main()/run() stands
    caller,        \* "run": the action's run; "direct": a direct waitForTaskActive call
    remoteTasks,   \* the tasks the remote holds for the owner, in creation order
    lastResp,      \* the last HTTP response the client received
    calls,         \* requests issued by this run, per operation
    sentHeaders,   \* the headers the requests of this run were sent with
    coderUser,     \* run(): coderUser
    taskName,      \* run(): taskName
    template,      \* run(): template
    presetID,      \* run(): presetID
    existingTask,  \* run(): existingTask
    createdTask,   \* run(): createdTask
    createReq,     \* the body of the create request issued
    sendReq,       \* the task id and input of the send-input request issued
    waitCall,      \* the arguments of the waitForTaskActive call
    waitResult,    \* "none" | "polling" | "returned" | "threw"
    now,           \* Date.now(), counted from the start of the run
    startTime,     \* waitForTaskActive: startTime
    fastPolls,     \* fetches of this wait the remote answered at once
    outputs,       \* the outputs main() sets
    error,         \* the value thrown out of run() / waitForTaskActive
    ghComments,    \* the comments of the GitHub issue, oldest first
    ghCalls,       \* GitHub requests issued by this run, per operation
    ghLast,        \* the last commentOnIssue call: its URL and what GitHub answered
    ghPending,     \* the commentOnIssue calls listed and not yet written: URL and target
    runNo,         \* the number of this run
    history,       \* the created flag of each finished successful run, and its creates
    parked         \* the locals of a concurrent invocation that is not running now

vars == <<inputs, pc, caller, remoteTasks, lastResp, calls, sentHeaders, coderUser,
          taskName,
          template, presetID, existingTask, createdTask, createReq, sendReq, waitCall,
          waitResult, now, startTime, fastPolls, outputs, error, ghComments, ghCalls, ghLast, ghPending,
          runNo, history, parked>>

Ops == {"users", "template", "presets", "listTasks", "getTaskById", "createTask",
        "sendInput"}
NoCalls == [op \in Ops |-> 0]
GhOps == {"listComments", "updateComment", "createComment"}
NoGhCalls == [op \in GhOps |-> 0]
\* A client whose headers carry no session token
ClientHeaders_NoToken(apiToken) ==
    [CoderSessionToken |-> "", ContentType |-> "application/json"]

\* RealCoderClient, the constructor: the headers of every request
ClientHeaders(apiToken) ==
    [CoderSessionToken |-> apiToken, ContentType |-> "application/json"]

\* The HTTP method of the request of each operation: createTask and sendTaskInput
\* pass method: "POST", the others pass none and fetch takes GET
MethodOf(op) == IF op \in {"createTask", "sendInput"} THEN "POST" ELSE "GET"

\* request(): one fetch, sent with the headers of the client
Called(op) ==
    /\ calls' = [calls EXCEPT ![op] = @ + 1]
    /\ sentHeaders' = sentHeaders \cup {ClientHeaders(inputs.coderToken)}

\* ------------------------------------------------------------ initial states

ValidIssueURL == Url(<<"github.com", "acme", "widgets", "issues", "42">>)
PullURL == Url(<<"github.com", "acme", "widgets", "pull", "42">>)
OtherIssueURL == Url(<<"github.com", "acme", "widgets", "issues", "43">>)

RawInputs ==
    [coderTaskPrompt : {"fix the bug"},
     coderToken : {"token"},
     coderURL : {Url(<<"coder.test">>), EmptyUrl},
     coderTemplateName : {"tasks-docker"},
     githubIssueURL : {ValidIssueURL, PullURL, EmptyUrl},
     coderOrganization : {Undefined, Some("default")},
     coderTaskNamePrefix : {Undefined, Some("gh")},
     coderTemplatePreset : {Undefined, Some(""), Some("a"), Some("zz")},
     commentOnIssue : {Some(TRUE), Some(FALSE)},
     githubUserID : {Undefined, Some(0), Some(7)},
     coderUsername : {Undefined, Some(""), Some("alice")}]

\* What the remote holds before the first run
InitialRemotes ==
    {<<>>,
     <<[id |-> 1, name |-> TaskNameString("gh", 43)],
       [id |-> 2, name |-> TaskNameString("gh", 42)]>>,
     <<[id |-> 1, name |-> TaskNameString("gh", 43)],
       [id |-> 2, name |-> TaskNameString("gh", 44)]>>}

\* The comments of the issue before the first run
InitialComments == {<<>>}

RunLocalsInit ==
    /\ lastResp = NoResponse
    /\ calls = NoCalls
    /\ sentHeaders = {}
    /\ coderUser = Undefined
    /\ taskName = Undefined
    /\ template = Undefined
    /\ presetID = Undefined
    /\ existingTask = Undefined
    /\ createdTask = Undefined
    /\ ghCalls = NoGhCalls
    /\ ghLast = Undefined
    /\ ghPending = <<>>
    /\ createReq = Undefined
    /\ sendReq = Undefined
    /\ waitCall = Undefined
    /\ waitResult = "none"
    /\ startTime = 0
    /\ fastPolls = 0
    /\ outputs = Undefined
    /\ error = NoError

Init ==
    /\ inputs \in RawInputs
    /\ pc = "main"
    /\ caller = "run"
    /\ parked = Undefined
    /\ remoteTasks \in InitialRemotes
    /\ ghComments \in InitialComments
    /\ now = 0
    /\ runNo = 1
    /\ history = <<>>
    /\ RunLocalsInit

\* ------------------------------------------------------------ main() and run()

Fail(e) ==
    /\ pc' = "failed"
    /\ error' = e

\* main(), the catch: core.setFailed(error.message) for an Error, and
\* core.setFailed("Unknown error occurred") for any other thrown value
FailureMessage(e) ==
    IF e.name = "string" THEN "Unknown error occurred" ELSE e.message

\* README, Inputs: comment-on-issue is the one input with a default, true
CommentOnIssueDefault == TRUE

\* core.getInput(name, { required: true }) on an input that is not supplied or
\* is empty throws "Input required and not supplied: {name}"
NotSupplied(v) == v = Undefined \/ v = Some("")

\* core.getInput(name) || undefined: an input that is not supplied or is empty
EmptyToUndefined(v) == IF v = Some("") THEN Undefined ELSE v

\* main(): the inputs as read with core.getInput and core.getBooleanInput.  The
\* token, template name, prompt, organization and prefix are read with
\* required: true, and so are the two URLs (and the GitHub token, which no
\* step of the model reads);
\* comment-on-issue left out arrives as its default; coder-username and
\* coder-template-preset are read as core.getInput(name) || undefined.
GetInputs(raw) ==
    IF \/ raw.coderURL = EmptyUrl \/ raw.githubIssueURL = EmptyUrl
       \/ raw.coderToken = "" \/ raw.coderTemplateName = "" \/ raw.coderTaskPrompt = ""
       \/ NotSupplied(raw.coderOrganization) \/ NotSupplied(raw.coderTaskNamePrefix)
    THEN Throw(PlainError("Input required and not supplied", <<>>))
    ELSE Return([raw EXCEPT !.commentOnIssue =
                               IF @ = Undefined THEN Some(CommentOnIssueDefault) ELSE @,
                            !.coderUsername = EmptyToUndefined(@),
                            !.coderTemplatePreset = EmptyToUndefined(@)])

\* main(): the inputs are read, then ActionInputsSchema.parse
MainParse ==
    /\ pc = "main"
    /\ LET g == GetInputs(inputs)
           r == IF g.outcome = "throw" THEN g ELSE ActionInputsSchemaParse(g.value)
       IN
       IF r.outcome = "throw"
       THEN /\ Fail(r.error)
            /\ UNCHANGED inputs
       ELSE /\ inputs' = r.value
            /\ pc' = "user"
            /\ UNCHANGED error
    /\ UNCHANGED <<caller, parked, remoteTasks, lastResp, calls, sentHeaders, coderUser, taskName, template,
                   presetID, existingTask, createdTask, createReq, sendReq, waitCall,
                   waitResult, now, startTime, fastPolls, outputs, ghComments, ghCalls, ghLast, ghPending,
                   runNo, history>>

\* run(): getCoderUserByGitHubId, parseGithubIssueURL, the guard on the prefix
\* and the issue URL, the task name
ResolveUser ==
    /\ pc = "user"
    /\ \E resp \in IF UserIdRejectedLocally(inputs.githubUserID)
                   THEN {NoResponse} ELSE UserResponses :
         LET r == GetCoderUserByGitHubId(inputs.githubUserID, resp)
             u == ParseGithubIssueURL(inputs.githubIssueURL)
         IN /\ IF UserIdRejectedLocally(inputs.githubUserID)
               THEN UNCHANGED <<lastResp, calls, sentHeaders>>
               ELSE lastResp' = resp /\ Called("users")
            /\ IF r.outcome = "throw"
               THEN Fail(r.error) /\ UNCHANGED <<coderUser, taskName>>
               ELSE IF u.outcome = "throw"
               THEN /\ Fail(u.error)
                    /\ coderUser' = Some(r.value)
                    /\ UNCHANGED taskName
               ELSE IF ~PrefixAndIssueGiven(inputs.coderTaskNamePrefix,
                                            inputs.githubIssueURL)
               THEN /\ Fail(MissingPrefixOrIssue)
                    /\ coderUser' = Some(r.value)
                    /\ UNCHANGED taskName
               ELSE /\ coderUser' = Some(r.value)
                    /\ taskName' = Some(TaskNameString(inputs.coderTaskNamePrefix[1],
                                                       u.value.githubIssueNumber))
                    /\ pc' = "template"
                    /\ UNCHANGED error
    /\ UNCHANGED <<inputs, caller, parked, remoteTasks, template, presetID, existingTask,
                   createdTask, createReq, sendReq, waitCall, waitResult, now, startTime,
                   fastPolls, outputs, ghComments, ghCalls, ghLast, ghPending, runNo, history>>

\* run(): getTemplateByOrganizationAndName
GetTemplate ==
    /\ pc = "template"
    /\ \E resp \in TemplateResponses :
         LET r == GetTemplateByOrganizationAndName(resp) IN
         /\ lastResp' = resp
         /\ Called("template")
         /\ IF r.outcome = "throw"
            THEN Fail(r.error) /\ UNCHANGED template
            ELSE template' = Some(r.value) /\ pc' = "presets" /\ UNCHANGED error
    /\ UNCHANGED <<inputs, caller, parked, remoteTasks, coderUser, taskName, presetID,
                   existingTask, createdTask, createReq, sendReq, waitCall, waitResult,
                   now, startTime, fastPolls, outputs, ghComments, ghCalls, ghLast, ghPending, runNo,
                   history>>

\* run(): getTemplateVersionPresets and the preset selection
GetPresets ==
    /\ pc = "presets"
    /\ \E resp \in PresetResponses :
         LET r == GetTemplateVersionPresets(resp)
             sel == IF r.outcome = "throw" THEN r
                    ELSE SelectPreset(r.value, inputs.coderTemplatePreset)
         IN /\ lastResp' = resp
            /\ Called("presets")
            /\ IF sel.outcome = "throw"
               THEN Fail(sel.error) /\ UNCHANGED presetID
               ELSE presetID' = sel.value /\ pc' = "lookup" /\ UNCHANGED error
    /\ UNCHANGED <<inputs, caller, parked, remoteTasks, coderUser, taskName, template,
                   existingTask, createdTask, createReq, sendReq, waitCall, waitResult,
                   now, startTime, fastPolls, outputs, ghComments, ghCalls, ghLast, ghPending, runNo,
                   history>>

\* A default budget that is the run's long one
WaitTimeoutOf_LongDefault(timeoutArg) ==
    IF timeoutArg = Undefined THEN RunWaitTimeoutMs ELSE timeoutArg[1]

\* waitForTaskActive(owner, taskId, logFn, timeoutMs = 120000), on entry
WaitTimeoutOf(timeoutArg) ==
    IF timeoutArg = Undefined THEN DefaultTimeoutMs ELSE timeoutArg[1]

EnterWait(taskId, timeoutArg) ==
    /\ waitCall' = Some([taskId |-> taskId, timeoutArg |-> timeoutArg,
                         timeoutMs |-> WaitTimeoutOf(timeoutArg)])
    /\ waitResult' = "polling"
    /\ startTime' = now
    /\ fastPolls' = 0

\* run(): getTask, then the branch on existingTask and on its status
LookupTask ==
    /\ pc = "lookup"
    /\ \E resp \in TaskListResponses(remoteTasks) :
         LET r == GetTask(taskName[1], resp) IN
         /\ lastResp' = resp
         /\ Called("listTasks")
         /\ IF r.outcome = "throw"
            THEN /\ Fail(r.error)
                 /\ UNCHANGED <<existingTask, waitCall, waitResult, startTime, fastPolls>>
            ELSE /\ existingTask' = r.value
                 /\ UNCHANGED error
                 /\ IF r.value = Undefined
                    THEN /\ pc' = "create"
                         /\ UNCHANGED <<waitCall, waitResult, startTime, fastPolls>>
                    ELSE IF NeedsWait(r.value[1])
                    THEN /\ pc' = "wait"
                         /\ EnterWait(r.value[1].id, Some(RunWaitTimeoutMs))
                    ELSE /\ pc' = "send"
                         /\ UNCHANGED <<waitCall, waitResult, startTime, fastPolls>>
    /\ UNCHANGED <<inputs, caller, parked, remoteTasks, coderUser, taskName, template, presetID,
                   createdTask, createReq, sendReq, now, outputs, ghComments, ghCalls, ghLast, ghPending,
                   runNo, history>>

\* The time the fetch of one iteration takes: the remote answers the first
\* MaxFastPolls fetches of a wait at once, every later one after SlowFetchMs.
FetchLatency(fast) == IF fast < MaxFastPolls THEN 0 ELSE SlowFetchMs

\* waitForTaskActive: one iteration of the loop, the condition having held, up
\* to its sleep: the fetch (the first await) and the tests on the fetched task.
\* An iteration that neither throws nor returns goes on to its sleep.
WaitPoll ==
    /\ pc = "wait"
    /\ WaitLoopContinues(now, startTime, waitCall[1].timeoutMs)
    /\ \E resp \in TaskByIdResponses(remoteTasks, waitCall[1].taskId) :
         LET it == WaitIteration(GetTaskById(resp)) IN
         /\ fastPolls' = IF fastPolls < MaxFastPolls THEN fastPolls + 1 ELSE fastPolls
         /\ lastResp' = resp
         /\ Called("getTaskById")
         /\ now' = now + FetchLatency(fastPolls)
         /\ IF it.step = "throw"
            THEN Fail(it.error) /\ waitResult' = "threw"
            ELSE IF it.step = "return"
            THEN /\ pc' = IF caller = "run" THEN "send" ELSE "done"
                 /\ waitResult' = "returned"
                 /\ UNCHANGED error
            ELSE pc' = "waitSleep" /\ UNCHANGED <<waitResult, error>>
    /\ UNCHANGED <<inputs, caller, parked, remoteTasks, coderUser, taskName, template, presetID,
                   existingTask, createdTask, createReq, sendReq, waitCall, startTime,
                   outputs, ghComments, ghCalls, ghLast, ghPending, runNo, history>>

\* waitForTaskActive: await new Promise((resolve) => setTimeout(resolve,
\* pollIntervalMs)) (the second await); the timer fires and the loop condition
\* is next
WaitSleep ==
    /\ pc = "waitSleep"
    /\ now' = now + SleepMs("sleep")
    /\ pc' = "wait"
    /\ UNCHANGED <<inputs, caller, parked, remoteTasks, lastResp, calls, sentHeaders,
                   coderUser, taskName, template, presetID, existingTask, createdTask,
                   createReq, sendReq, waitCall, waitResult, startTime, fastPolls,
                   outputs, error, ghComments, ghCalls, ghLast, ghPending, runNo,
                   history>>

\* waitForTaskActive: the loop condition fails, the timeout error is thrown
WaitTimeout ==
    /\ pc = "wait"
    /\ ~WaitLoopContinues(now, startTime, waitCall[1].timeoutMs)
    /\ Fail(WaitTimeoutError(waitCall[1].timeoutMs))
    /\ waitResult' = "threw"
    /\ UNCHANGED <<inputs, caller, parked, remoteTasks, lastResp, calls, sentHeaders, coderUser, taskName,
                   template, presetID, existingTask, createdTask, createReq, sendReq,
                   waitCall, now, startTime, fastPolls, outputs, ghComments, ghCalls, ghLast, ghPending,
                   runNo, history>>

\* run(): sendTaskInput to the existing task, then the outputs of the reuse path
SendInput ==
    /\ pc = "send"
    /\ \E resp \in SendResponses :
         LET r == SendTaskInput(resp) IN
         /\ lastResp' = resp
         /\ Called("sendInput")
         /\ sendReq' = Some(SendInputRequest(existingTask[1], inputs.coderTaskPrompt))
         /\ IF r.outcome = "throw"
            THEN Fail(r.error) /\ UNCHANGED outputs
            ELSE /\ pc' = "done"
                 /\ outputs' = Some([coderUsername |-> coderUser[1].username,
                                     taskName |-> existingTask[1].name,
                                     taskUrl |-> GenerateTaskUrl(inputs.coderURL,
                                                                 coderUser[1].username,
                                                                 existingTask[1].id),
                                     taskCreated |-> FALSE])
                 /\ UNCHANGED error
    /\ UNCHANGED <<inputs, caller, parked, remoteTasks, coderUser, taskName, template, presetID,
                   existingTask, createdTask, createReq, waitCall, waitResult, now,
                   startTime, fastPolls, ghComments, ghCalls, ghLast, ghPending, runNo, history>>

\* run(): the outputs of the create path
CreatedOutputs(created) ==
    [coderUsername |-> coderUser[1].username,
     taskName |-> taskName[1],
     taskUrl |-> GenerateTaskUrl(inputs.coderURL, coderUser[1].username, created.id),
     taskCreated |-> TRUE]

\* A toggle test that comments whatever the input says
CommentRequested_Always(ins) == TRUE

\* run(): if (this.inputs.commentOnIssue)
CommentRequested(ins) == ins.commentOnIssue[1]

\* run(): createTask, then the comment toggle
CreateTaskStep ==
    /\ pc = "create"
    /\ LET req == CreateTaskRequest(taskName[1], template[1], presetID,
                                    inputs.coderTaskPrompt)
       IN \E resp \in CreateResponses(remoteTasks, req) :
            LET r == CreateTask(resp) IN
            /\ lastResp' = resp
            /\ Called("createTask")
            /\ createReq' = Some(req)
            /\ remoteTasks' = IF resp.status = 201
                              THEN Append(remoteTasks,
                                          [id |-> NextTaskId(remoteTasks), name |-> req.name])
                              ELSE remoteTasks
            /\ IF r.outcome = "throw"
               THEN Fail(r.error) /\ UNCHANGED <<createdTask, outputs>>
               ELSE /\ createdTask' = Some(r.value)
                    /\ UNCHANGED error
                    /\ IF CommentRequested(inputs)
                       THEN pc' = "comment" /\ UNCHANGED outputs
                       ELSE pc' = "done" /\ outputs' = Some(CreatedOutputs(r.value))
    /\ UNCHANGED <<inputs, caller, parked, coderUser, taskName, template, presetID, existingTask,
                   sendReq, waitCall, waitResult, now, startTime, fastPolls, ghComments,
                   ghCalls, ghLast, ghPending, runNo, history>>

\* commentOnIssue: the body `Task created: ${taskUrl}`
CommentBody(taskUrl) == [prefix |-> "Task created:", url |-> taskUrl]

\* commentOnIssue: comment.body?.startsWith("Task created:"); a comment may have no body
IsTaskComment(comment) ==
    IsDefined(comment.body) /\ comment.body[1].prefix = "Task created:"

\* A search that takes the oldest comment with the prefix
RECURSIVE LastTaskComment_First(_, _)
LastTaskComment_First(comments, i) ==
    IF i = 0 THEN 0
    ELSE LET j == LastTaskComment_First(comments, i - 1)
         IN IF j > 0 THEN j ELSE IF IsTaskComment(comments[i]) THEN i ELSE 0

\* commentOnIssue: comments.reverse().find(...), the index of the last such comment
RECURSIVE LastTaskComment(_, _)
LastTaskComment(comments, i) ==
    IF i = 0 THEN 0
    ELSE IF IsTaskComment(comments[i]) THEN i
    ELSE LastTaskComment(comments, i - 1)

\* commentOnIssue(taskUrl, ...) up to its first await, the listComments request.
\* A failure is caught and ends the call; otherwise the call goes on with the
\* last comment with the prefix it found in the listing (0: none)
CommentListEffect(taskUrl, listOk) ==
    /\ ghCalls' = [ghCalls EXCEPT !["listComments"] = @ + 1]
    /\ UNCHANGED ghComments
    /\ IF listOk
       THEN /\ ghPending' =
                 Append(ghPending,
                        [url |-> taskUrl,
                         target |-> LastTaskComment(ghComments, Len(ghComments))])
            /\ UNCHANGED ghLast
       ELSE /\ ghLast' = Some([url |-> taskUrl, listOk |-> FALSE, writeOk |-> FALSE])
            /\ UNCHANGED ghPending

\* A sequence without its k-th element
RemoveAt(seq, k) == SubSeq(seq, 1, k - 1) \o SubSeq(seq, k + 1, Len(seq))

\* commentOnIssue after the listing, its second await: updateComment on the
\* comment found, or createComment; the issue is as it is by now, and a failure
\* of the request is caught
CommentWriteEffect(k, writeOk) ==
    LET call == ghPending[k]
        i == call.target
    IN /\ ghPending' = RemoveAt(ghPending, k)
       /\ ghLast' = Some([url |-> call.url, listOk |-> TRUE, writeOk |-> writeOk])
       /\ IF i > 0
          THEN /\ ghCalls' = [ghCalls EXCEPT !["updateComment"] = @ + 1]
               /\ ghComments' = IF writeOk
                                THEN [ghComments EXCEPT ![i].body = Some(CommentBody(call.url))]
                                ELSE ghComments
          ELSE /\ ghCalls' = [ghCalls EXCEPT !["createComment"] = @ + 1]
               /\ ghComments' = IF writeOk
                                THEN Append(ghComments, [body |-> Some(CommentBody(call.url))])
                                ELSE ghComments

\* A commentOnIssue without the try/catch: a failed request rejects the call
CommentOnIssueResult_Rethrow(listOk, writeOk) ==
    IF listOk /\ writeOk
    THEN Return(Undefined)
    ELSE Throw(PlainError("comment request failed", <<>>))

\* commentOnIssue: what the call settles to; the catch logs the failure with
\* core.error and the promise resolves either way
CommentOnIssueResult(listOk, writeOk) == Return(Undefined)

\* run(): commentOnIssue up to the answer of listComments; a failure is caught
\* and logged and run() returns the outputs
CommentOnIssue ==
    /\ pc = "comment"
    /\ \E listOk \in BOOLEAN :
         LET r == CommentOnIssueResult(listOk, TRUE) IN
         /\ CommentListEffect(CreatedOutputs(createdTask[1]).taskUrl, listOk)
         /\ IF listOk
            THEN pc' = "commentWrite" /\ UNCHANGED <<outputs, error>>
            ELSE IF r.outcome = "throw"
            THEN Fail(r.error) /\ UNCHANGED outputs
            ELSE /\ pc' = "done"
                 /\ outputs' = Some(CreatedOutputs(createdTask[1]))
                 /\ UNCHANGED error
    /\ UNCHANGED <<inputs, caller, parked, remoteTasks, lastResp, calls, sentHeaders,
                   coderUser, taskName, template, presetID, existingTask, createdTask,
                   createReq, sendReq, waitCall, waitResult, now, startTime, fastPolls,
                   runNo, history>>

\* run(): commentOnIssue from the answer of listComments on: updateComment or
\* createComment (a failure is caught and logged), then the outputs
CommentOnIssueWrite ==
    /\ pc = "commentWrite"
    /\ \E writeOk \in BOOLEAN :
         LET r == CommentOnIssueResult(TRUE, writeOk) IN
         /\ CommentWriteEffect(1, writeOk)
         /\ IF r.outcome = "throw"
            THEN Fail(r.error) /\ UNCHANGED outputs
            ELSE /\ pc' = "done"
                 /\ outputs' = Some(CreatedOutputs(createdTask[1]))
                 /\ UNCHANGED error
    /\ UNCHANGED <<inputs, caller, parked, remoteTasks, lastResp, calls, sentHeaders,
                   coderUser, taskName, template, presetID, existingTask, createdTask,
                   createReq, sendReq, waitCall, waitResult, now, startTime, fastPolls,
                   runNo, history>>

\* The workflow runs the action again, with the same inputs, on the same remote
NextRun ==
    /\ caller = "run"
    /\ pc \in {"done", "failed"}
    /\ runNo < MaxRuns
    /\ runNo' = runNo + 1
    /\ history' = Append(history, [succeeded |-> pc = "done",
                                   found |-> IsDefined(existingTask),
                                   created |-> IF pc = "done"
                                               THEN outputs[1].taskCreated ELSE FALSE,
                                   creates |-> calls["createTask"]])
    /\ pc' = "main"
    /\ lastResp' = NoResponse
    /\ calls' = NoCalls
    /\ sentHeaders' = {}
    /\ coderUser' = Undefined
    /\ taskName' = Undefined
    /\ template' = Undefined
    /\ presetID' = Undefined
    /\ existingTask' = Undefined
    /\ createdTask' = Undefined
    /\ ghCalls' = NoGhCalls
    /\ ghLast' = Undefined
    /\ ghPending' = <<>>
    /\ createReq' = Undefined
    /\ sendReq' = Undefined
    /\ waitCall' = Undefined
    /\ waitResult' = "none"
    /\ startTime' = 0
    /\ fastPolls' = 0
    /\ outputs' = Undefined
    /\ error' = NoError
    /\ now' = 0
    /\ UNCHANGED <<inputs, caller, parked, remoteTasks, ghComments>>

\* ------------------------------------------------------------ specifications

\* One run of the action
Next ==
    \/ MainParse
    \/ ResolveUser
    \/ GetTemplate
    \/ GetPresets
    \/ LookupTask
    \/ WaitPoll
    \/ WaitSleep
    \/ WaitTimeout
    \/ SendInput
    \/ CreateTaskStep
    \/ CommentOnIssue
    \/ CommentOnIssueWrite

Spec == Init /\ [][Next]_vars

\* The budgets of the direct waitForTaskActive calls; Undefined takes the default
WaitBudgets == {Undefined, Some(0), Some(1), Some(1000), Some(7000)}

\* A direct call waitForTaskActive(owner, taskId, logFn, timeoutMs?) on a task
\* the remote holds
WaitInit ==
    /\ inputs = [coderTaskPrompt |-> "fix the bug", coderToken |-> "token"]
    /\ pc = "wait"
    /\ caller = "direct"
    /\ parked = Undefined
    /\ remoteTasks = <<[id |-> 1, name |-> TaskNameString("gh", 42)]>>
    /\ ghComments = <<>>
    /\ now \in {0, 5000}
    /\ runNo = 1
    /\ history = <<>>
    /\ lastResp = NoResponse
    /\ calls = NoCalls
    /\ sentHeaders = {}
    /\ coderUser = Undefined
    /\ taskName = Undefined
    /\ template = Undefined
    /\ presetID = Undefined
    /\ existingTask = Undefined
    /\ createdTask = Undefined
    /\ ghCalls = NoGhCalls
    /\ ghLast = Undefined
    /\ ghPending = <<>>
    /\ createReq = Undefined
    /\ sendReq = Undefined
    /\ outputs = Undefined
    /\ error = NoError
    /\ fastPolls = 0
    /\ startTime = now
    /\ waitResult = "polling"
    /\ \E budget \in WaitBudgets :
         waitCall = Some([taskId |-> 1, timeoutArg |-> budget,
                          timeoutMs |-> WaitTimeoutOf(budget)])

WaitNext == WaitPoll \/ WaitSleep \/ WaitTimeout

WaitSpec == WaitInit /\ [][WaitNext]_vars

\* The loop of waitForTaskActive runs on: each fetch returns and the clock advances
WaitFairSpec == WaitSpec /\ WF_vars(WaitNext)

\* Runs in sequence for one issue: inputs main() accepts, the comment toggle on,
\* a remote that holds no task yet
SeqInit ==
    /\ Init
    /\ GetInputs(inputs).outcome = "return"
    /\ ActionInputsSchemaParse(GetInputs(inputs).value).outcome = "return"
    /\ inputs.githubUserID = Some(7)
    /\ inputs.githubIssueURL = ValidIssueURL
    /\ inputs.coderTemplatePreset = Undefined
    /\ inputs.commentOnIssue = Some(TRUE)
    /\ remoteTasks = <<>>

SeqNext == Next \/ NextRun

SeqSpec == SeqInit /\ [][SeqNext]_vars

\* run() called on a CoderTaskAction constructed with inputs of type ActionInputs,
\* as the callers of the class other than main() do: the defaults are in place, one
\* of githubUserID and coderUsername is set, and no schema has looked at the values.
TypedInputs ==
    { i \in [coderTaskPrompt : {"fix the bug"},
             coderToken : {"token"},
             coderURL : {Url(<<"coder.test">>)},
             coderTemplateName : {"tasks-docker"},
             githubIssueURL : {ValidIssueURL, PullURL, OtherIssueURL, EmptyUrl},
             coderOrganization : {Some("default")},
             coderTaskNamePrefix : {Some("gh"), Some("")},
             coderTemplatePreset : {Undefined, Some(""), Some("a")},
             commentOnIssue : {Some(TRUE), Some(FALSE)},
             githubUserID : {Undefined, Some(0), Some(7)},
             coderUsername : {Undefined, Some("alice")}] :
        IsDefined(i.githubUserID) # IsDefined(i.coderUsername) }

RunInit ==
    /\ inputs \in TypedInputs
    /\ pc = "user"
    /\ caller = "run"
    /\ parked = Undefined
    /\ remoteTasks \in InitialRemotes
    /\ ghComments \in InitialComments
    /\ now = 0
    /\ runNo = 1
    /\ history = <<>>
    /\ RunLocalsInit

RunNext ==
    \/ ResolveUser
    \/ GetTemplate
    \/ GetPresets
    \/ LookupTask
    \/ WaitPoll
    \/ WaitSleep
    \/ WaitTimeout
    \/ SendInput
    \/ CreateTaskStep
    \/ CommentOnIssue
    \/ CommentOnIssueWrite

RunSpec == RunInit /\ [][RunNext]_vars

\* Two invocations of the action run at once against one remote.  Each is a
\* process of its own with its own locals; a request and the handling of its answer
\* is one step of the invocation that issues it, and between two such steps the
\* other invocation may take steps.  The locals of the invocation that is not
\* taking the step are kept in parked.
Locals ==
    [inputs |-> inputs, pc |-> pc, lastResp |-> lastResp, calls |-> calls,
     sentHeaders |-> sentHeaders,
     coderUser |-> coderUser, taskName |-> taskName, template |-> template,
     presetID |-> presetID, existingTask |-> existingTask,
     createdTask |-> createdTask, createReq |-> createReq, sendReq |-> sendReq,
     waitCall |-> waitCall, waitResult |-> waitResult, now |-> now,
     startTime |-> startTime, fastPolls |-> fastPolls, outputs |-> outputs,
     error |-> error, ghCalls |-> ghCalls, ghLast |-> ghLast,
     ghPending |-> ghPending]

\* The other invocation takes over: it has steps left to take
Switch ==
    /\ IsDefined(parked)
    /\ parked[1].pc \notin {"done", "failed"}
    /\ parked' = Some(Locals)
    /\ inputs' = parked[1].inputs
    /\ pc' = parked[1].pc
    /\ lastResp' = parked[1].lastResp
    /\ calls' = parked[1].calls
    /\ sentHeaders' = parked[1].sentHeaders
    /\ coderUser' = parked[1].coderUser
    /\ taskName' = parked[1].taskName
    /\ template' = parked[1].template
    /\ presetID' = parked[1].presetID
    /\ existingTask' = parked[1].existingTask
    /\ createdTask' = parked[1].createdTask
    /\ createReq' = parked[1].createReq
    /\ sendReq' = parked[1].sendReq
    /\ waitCall' = parked[1].waitCall
    /\ waitResult' = parked[1].waitResult
    /\ now' = parked[1].now
    /\ startTime' = parked[1].startTime
    /\ fastPolls' = parked[1].fastPolls
    /\ outputs' = parked[1].outputs
    /\ error' = parked[1].error
    /\ ghCalls' = parked[1].ghCalls
    /\ ghLast' = parked[1].ghLast
    /\ ghPending' = parked[1].ghPending
    /\ UNCHANGED <<caller, remoteTasks, ghComments, runNo, history>>

\* The inputs of the two invocations: one owner and prefix, issue 42 for the
\* first, issue 42 or 43 for the second; no comment is asked for
ConcInputs(issueURL) ==
    [coderTaskPrompt |-> "fix the bug",
     coderToken |-> "token",
     coderURL |-> Url(<<"coder.test">>),
     coderTemplateName |-> "tasks-docker",
     githubIssueURL |-> issueURL,
     coderOrganization |-> Some("default"),
     coderTaskNamePrefix |-> Some("gh"),
     coderTemplatePreset |-> Undefined,
     commentOnIssue |-> Some(FALSE),
     githubUserID |-> Some(7),
     coderUsername |-> Undefined]

\* The locals of an invocation that has resolved the user, the template and the
\* presets (an empty list) and is about to look its task up
ResolvedLocals(issueURL) ==
    [inputs |-> ConcInputs(issueURL), pc |-> "lookup",
     lastResp |-> HttpResponse(200, [kind |-> "presets", presets |-> <<>>]),
     calls |-> [op \in Ops |-> IF op \in {"users", "template", "presets"} THEN 1 ELSE 0],
     sentHeaders |-> {ClientHeaders("token")},
     coderUser |-> Some(Alice),
     taskName |-> Some(TaskNameString("gh", ParseGithubIssueURL(issueURL).value.githubIssueNumber)),
     template |-> Some(TheTemplate),
     presetID |-> Undefined, existingTask |-> Undefined,
     createdTask |-> Undefined, createReq |-> Undefined, sendReq |-> Undefined,
     waitCall |-> Undefined, waitResult |-> "none", now |-> 0,
     startTime |-> 0, fastPolls |-> 0, outputs |-> Undefined,
     error |-> NoError, ghCalls |-> NoGhCalls, ghLast |-> Undefined,
     ghPending |-> <<>>]

\* Both invocations are about to look their tasks up; the remote holds the task
\* of issue 43 and none of issue 42
ConcInit ==
    /\ caller = "run"
    /\ remoteTasks = <<[id |-> 1, name |-> TaskNameString("gh", 43)]>>
    /\ ghComments = <<>>
    /\ runNo = 1
    /\ history = <<>>
    /\ inputs = ResolvedLocals(ValidIssueURL).inputs
    /\ pc = ResolvedLocals(ValidIssueURL).pc
    /\ lastResp = ResolvedLocals(ValidIssueURL).lastResp
    /\ calls = ResolvedLocals(ValidIssueURL).calls
    /\ sentHeaders = ResolvedLocals(ValidIssueURL).sentHeaders
    /\ coderUser = ResolvedLocals(ValidIssueURL).coderUser
    /\ taskName = ResolvedLocals(ValidIssueURL).taskName
    /\ template = ResolvedLocals(ValidIssueURL).template
    /\ presetID = ResolvedLocals(ValidIssueURL).presetID
    /\ existingTask = ResolvedLocals(ValidIssueURL).existingTask
    /\ createdTask = ResolvedLocals(ValidIssueURL).createdTask
    /\ createReq = ResolvedLocals(ValidIssueURL).createReq
    /\ sendReq = ResolvedLocals(ValidIssueURL).sendReq
    /\ waitCall = ResolvedLocals(ValidIssueURL).waitCall
    /\ waitResult = ResolvedLocals(ValidIssueURL).waitResult
    /\ now = ResolvedLocals(ValidIssueURL).now
    /\ startTime = ResolvedLocals(ValidIssueURL).startTime
    /\ fastPolls = ResolvedLocals(ValidIssueURL).fastPolls
    /\ outputs = ResolvedLocals(ValidIssueURL).outputs
    /\ error = ResolvedLocals(ValidIssueURL).error
    /\ ghCalls = ResolvedLocals(ValidIssueURL).ghCalls
    /\ ghLast = ResolvedLocals(ValidIssueURL).ghLast
    /\ ghPending = ResolvedLocals(ValidIssueURL).ghPending
    /\ \E url \in {ValidIssueURL, OtherIssueURL} : parked = Some(ResolvedLocals(url))

ConcNext ==
    \/ LookupTask
    \/ WaitPoll
    \/ WaitSleep
    \/ WaitTimeout
    \/ SendInput
    \/ CreateTaskStep
    \/ Switch

ConcSpec == ConcInit /\ [][ConcNext]_vars

\* A direct call generateTaskUrl(coderUsername, taskID) on an action constructed
\* with the deployment URL
UrlArgs ==
    [coderURL : [scheme : {"https"},
                 segs : {<<"h.test">>, <<"coder.test", "base">>},
                 trailingSlashes : 0..2,
                 query : {Undefined, Some("x=1")},
                 fragment : {Undefined, Some("y")}],
     coderUsername : {"u", "alice"},
     taskID : {"t", "t2"}]

UrlInit ==
    /\ inputs \in UrlArgs
    /\ pc = "url"
    /\ caller = "direct"
    /\ parked = Undefined
    /\ remoteTasks = <<>>
    /\ ghComments = <<>>
    /\ now = 0
    /\ runNo = 1
    /\ history = <<>>
    /\ RunLocalsInit

GenerateTaskUrlCall ==
    /\ pc = "url"
    /\ outputs' = Some([taskUrl |-> GenerateTaskUrl(inputs.coderURL, inputs.coderUsername,
                                                    inputs.taskID)])
    /\ pc' = "done"
    /\ UNCHANGED <<inputs, caller, parked, remoteTasks, lastResp, calls, sentHeaders, coderUser,
                   taskName, template, presetID, existingTask, createdTask, createReq,
                   sendReq, waitCall, waitResult, now, startTime, fastPolls, error,
                   ghComments, ghCalls, ghLast, ghPending, runNo, history>>

UrlSpec == UrlInit /\ [][GenerateTaskUrlCall]_vars

\* Direct calls commentOnIssue(taskUrl, owner, repo, issueNumber), one after the
\* other, on an issue that holds comments of others, comments without a body and
\* earlier task comments
MaxCommentCalls == 2
MaxIssueComments == 3
OldTaskUrl == GenerateTaskUrl(Url(<<"coder.test">>), "alice", 0)
CommentUrls == {GenerateTaskUrl(Url(<<"coder.test">>), "alice", id) : id \in 1..2}
SomeComments ==
    {[body |-> Undefined],
     [body |-> Some([prefix |-> "LGTM", url |-> OldTaskUrl])],
     [body |-> Some(CommentBody(OldTaskUrl))]}
IssueComments ==
    UNION {[1..n -> SomeComments] : n \in 0..MaxIssueComments}

CommentInit ==
    /\ inputs = ConcInputs(ValidIssueURL)
    /\ pc = "commentCall"
    /\ caller = "direct"
    /\ parked = Undefined
    /\ remoteTasks = <<>>
    /\ ghComments \in IssueComments
    /\ now = 0
    /\ runNo = 1
    /\ history = <<>>
    /\ RunLocalsInit

\* A commentOnIssue call starts: its listComments request
CommentOnIssueCall ==
    /\ pc = "commentCall"
    /\ ghCalls["listComments"] < MaxCommentCalls
    /\ \E taskUrl \in CommentUrls, listOk \in BOOLEAN :
         CommentListEffect(taskUrl, listOk)
    /\ UNCHANGED <<inputs, pc, caller, parked, remoteTasks, lastResp, calls, sentHeaders,
                   coderUser, taskName, template, presetID, existingTask, createdTask,
                   createReq, sendReq, waitCall, waitResult, now, startTime, fastPolls,
                   outputs, error, runNo, history>>

\* A commentOnIssue call whose listing was answered goes on: its updateComment
\* or createComment request.  Calls started together are between their two
\* requests at the same time
CommentOnIssueCallWrite ==
    /\ pc = "commentCall"
    /\ \E k \in DOMAIN ghPending, writeOk \in BOOLEAN :
         CommentWriteEffect(k, writeOk)
    /\ UNCHANGED <<inputs, pc, caller, parked, remoteTasks, lastResp, calls, sentHeaders,
                   coderUser, taskName, template, presetID, existingTask, createdTask,
                   createReq, sendReq, waitCall, waitResult, now, startTime, fastPolls,
                   outputs, error, runNo, history>>

CommentNext == CommentOnIssueCall \/ CommentOnIssueCallWrite

CommentSpec == CommentInit /\ [][CommentNext]_vars

\* ActionInputsSchema.parse on input sets of every kind: each required field
\* valid or not, each optional field absent, empty or given, the id absent,
\* negative, 0 or positive, the username absent, empty or given
SchemaInputs ==
    [coderTaskPrompt : {"", "fix the bug"},
     coderToken : {"", "token"},
     coderURL : {Url(<<"coder.test">>), NotAUrl},
     coderTemplateName : {"", "tasks-docker"},
     githubIssueURL : {ValidIssueURL, NotAUrl},
     coderOrganization : {Undefined, Some(""), Some("acme")},
     coderTaskNamePrefix : {Undefined, Some("task")},
     coderTemplatePreset : {Undefined, Some("")},
     commentOnIssue : {Undefined, Some(FALSE)},
     githubUserID : {Undefined, Some(-1), Some(0), Some(7)},
     coderUsername : {Undefined, Some(""), Some("alice")}]

SchemaInit ==
    /\ inputs \in SchemaInputs
    /\ pc = "main"
    /\ caller = "direct"
    /\ parked = Undefined
    /\ remoteTasks = <<>>
    /\ ghComments = <<>>
    /\ now = 0
    /\ runNo = 1
    /\ history = <<>>
    /\ RunLocalsInit

\* A direct call ActionInputsSchema.parse(inputs)
SchemaParseCall ==
    /\ pc = "main"
    /\ LET r == ActionInputsSchemaParse(inputs) IN
       IF r.outcome = "throw"
       THEN /\ Fail(r.error)
            /\ UNCHANGED inputs
       ELSE /\ inputs' = r.value
            /\ pc' = "user"
            /\ UNCHANGED error
    /\ UNCHANGED <<caller, parked, remoteTasks, lastResp, calls, sentHeaders, coderUser,
                   taskName, template, presetID, existingTask, createdTask, createReq,
                   sendReq, waitCall, waitResult, now, startTime, fastPolls, outputs,
                   ghComments, ghCalls, ghLast, ghPending, runNo, history>>

SchemaSpec == SchemaInit /\ [][SchemaParseCall]_vars

\* Runs of main() with the organization, the prefix and the comment toggle each
\* supplied or left out
MainInputs ==
    [coderTaskPrompt : {"fix the bug"},
     coderToken : {"token"},
     coderURL : {Url(<<"coder.test">>)},
     coderTemplateName : {"tasks-docker"},
     githubIssueURL : {ValidIssueURL},
     coderOrganization : {Undefined, Some("acme")},
     coderTaskNamePrefix : {Undefined, Some("gh")},
     coderTemplatePreset : {Undefined},
     commentOnIssue : {Undefined, Some(TRUE), Some(FALSE)},
     githubUserID : {Some(7)},
     coderUsername : {Undefined}]

\* The issue before the first such run: without a comment, or with the task
\* comment of an earlier run followed by a comment of another kind
MainComments ==
    {<<>>,
     <<[body |-> Some(CommentBody(OldTaskUrl))],
       [body |-> Some([prefix |-> "LGTM", url |-> OldTaskUrl])]>>}

MainInit ==
    /\ inputs \in MainInputs
    /\ pc = "main"
    /\ caller = "run"
    /\ parked = Undefined
    /\ remoteTasks \in InitialRemotes
    /\ ghComments \in MainComments
    /\ now = 0
    /\ runNo = 1
    /\ history = <<>>
    /\ RunLocalsInit

MainSpec == MainInit /\ [][Next]_vars

\* ------------------------------------------------------------ claims

\* The lookup of this run has answered "no task"
LookupFoundNone ==
    /\ calls["listTasks"] = 1
    /\ existingTask = Undefined
    /\ pc \in {"create", "comment", "commentWrite", "done"} \/ IsDefined(createReq)

\* C1: when the lookup finds no task, the run issues exactly one create request,
\* carrying the derived task name, the template's active version id, the selected
\* preset id (none when no preset was selected) and the prompt as input; it issues
\* no get-task-by-id poll and no send-input request, never enters the wait, and its
\* outputs report created = true.
C1_CreatePath ==
    /\ LookupFoundNone =>
         /\ calls["getTaskById"] = 0 /\ waitCall = Undefined /\ waitResult = "none"
         /\ calls["sendInput"] = 0 /\ sendReq = Undefined
         /\ calls["createTask"] = (IF pc = "create" THEN 0 ELSE 1)
    /\ IsDefined(createReq) =>
         /\ LookupFoundNone
         /\ createReq[1].name = taskName[1]
         /\ createReq[1].name = <<"gh", "-", 42>>
         /\ createReq[1].template_version_id = "v1"
         /\ createReq[1].template_version_preset_id = presetID
         /\ createReq[1].input = inputs.coderTaskPrompt
    /\ (pc = "done" /\ LookupFoundNone) =>
         /\ IsDefined(outputs) /\ outputs[1].taskCreated = TRUE
         /\ calls["createTask"] = 1

\* A run that created its task with a selected preset
C1_Witness ==
    /\ pc = "done" /\ LookupFoundNone
    /\ calls["createTask"] = 1
    /\ createReq[1].template_version_preset_id = Some("p2")
    /\ outputs[1].taskCreated

\* A run that created its task with no preset selected
C1_WitnessNoPreset ==
    /\ pc = "done" /\ LookupFoundNone
    /\ createReq[1].template_version_preset_id = Undefined

\* C2: when the lookup finds a task with the derived name, the run issues no create
\* request; the prompt goes out in a send-input request addressed by the id of that
\* task, and the outputs report created = false with that id in the task URL.
C2_ReusePath ==
    /\ IsDefined(existingTask) =>
         /\ existingTask[1].name = taskName[1]
         /\ calls["createTask"] = 0 /\ createReq = Undefined
         /\ calls["sendInput"] <= 1
    /\ IsDefined(sendReq) =>
         /\ IsDefined(existingTask)
         /\ calls["sendInput"] = 1
         /\ sendReq[1].taskId = existingTask[1].id
         /\ sendReq[1].taskId = 2
         /\ sendReq[1].input = inputs.coderTaskPrompt
    /\ (pc = "done" /\ IsDefined(existingTask)) =>
         /\ calls["sendInput"] = 1
         /\ outputs[1].taskCreated = FALSE
         /\ outputs[1].taskUrl.path = <<"tasks", "alice", existingTask[1].id>>

\* A run that reused the task it found
C2_Witness ==
    /\ pc = "done" /\ IsDefined(existingTask)
    /\ sendReq = Some([taskId |-> 2, input |-> "fix the bug"])
    /\ ~outputs[1].taskCreated

\* C3: when the found task's status is not active, waitForTaskActive is called for
\* that task's id with a budget of 1,200,000 ms and has returned before send-input
\* is issued; when the wait fails, send-input is never issued.  A found task that
\* is active is sent input without a wait.
C3_WaitBeforeSend ==
    /\ (IsDefined(existingTask) /\ existingTask[1].status # "active") =>
         /\ waitCall = Some([taskId |-> existingTask[1].id,
                             timeoutArg |-> Some(1200000), timeoutMs |-> 1200000])
         /\ calls["sendInput"] >= 1 => waitResult = "returned"
         /\ pc \in {"send", "done"} => waitResult = "returned"
         /\ waitResult = "threw" => (pc = "failed" /\ calls["sendInput"] = 0)
    /\ (IsDefined(existingTask) /\ existingTask[1].status = "active") =>
         waitCall = Undefined

\* A task found pending, waited for, then sent the prompt
C3_Witness ==
    /\ pc = "done" /\ IsDefined(existingTask) /\ existingTask[1].status = "pending"
    /\ waitResult = "returned" /\ calls["getTaskById"] >= 2 /\ calls["sendInput"] = 1

\* A wait of the run that failed: no input was sent
C3_WitnessFailed ==
    /\ pc = "failed" /\ IsDefined(existingTask) /\ waitResult = "threw"
    /\ error.statusCode = 408 /\ calls["sendInput"] = 0

\* The previous run, in a sequence of runs
PrevRun == history[Len(history)]

\* The remote holds a task of this name
RECURSIVE HoldsNamed(_, _)
HoldsNamed(held, name) ==
    IF held = <<>> THEN FALSE
    ELSE Head(held).name = name \/ HoldsNamed(Tail(held), name)

\* C4: two runs in sequence for the same owner, prefix and issue, on a remote that
\* holds no task at first and retains the tasks it creates: the first run, when it
\* succeeds, reports created = true; the remote then holds the task; a following
\* run whose list request is answered with the tasks held finds it, issues no create
\* request and, when it succeeds, reports created = false, so that one create
\* request was issued across both runs.
C4_SecondRunReuses ==
    /\ [](/\ (runNo = 1 /\ pc = "done") =>
               (outputs[1].taskCreated /\ calls["createTask"] = 1)
          /\ (runNo >= 2 /\ PrevRun.succeeded /\ PrevRun.created) =>
               /\ PrevRun.creates = 1
               /\ HoldsNamed(remoteTasks, <<"gh", "-", 42>>)
               /\ IsDefined(existingTask) =>
                    /\ calls["createTask"] = 0
                    /\ PrevRun.creates + calls["createTask"] = 1
                    /\ pc = "done" => outputs[1].taskCreated = FALSE)
    /\ [][(/\ runNo >= 2 /\ PrevRun.succeeded /\ PrevRun.created
           /\ pc = "lookup" /\ pc' # "lookup"
           /\ ResponseOk(lastResp') /\ lastResp'.body.kind = "tasks")
          => (IsDefined(existingTask') /\ pc' \in {"wait", "send"})]_vars

\* A second run that reused the task the first run created
C4_Witness ==
    /\ runNo = 2 /\ PrevRun.succeeded /\ PrevRun.created /\ ~PrevRun.found
    /\ pc = "done" /\ ~outputs[1].taskCreated
    /\ PrevRun.creates + calls["createTask"] = 1
    /\ existingTask[1].id = 1

\* The last response is a task handed over by getTaskById
FetchedOk ==
    /\ calls["getTaskById"] >= 1
    /\ ResponseOk(lastResp) /\ lastResp.body.kind = "task"
Fetched == lastResp.body.task
FetchedReady == Fetched.status = "active" /\ Fetched.current_state = "idle"

\* C5: waitForTaskActive returns on an iteration exactly when the task fetched in it
\* has status active and current state idle.  A fetched task that is active with
\* the current state absent or not idle, or that is pending, initializing, paused
\* or unknown, is no success: the iteration sleeps the 2 seconds and goes back to
\* the head of the loop.
C5_ReadyIffActiveIdle ==
    /\ [](/\ waitResult = "returned" => (FetchedOk /\ FetchedReady)
          /\ (FetchedOk /\ FetchedReady) =>
               (waitResult = "returned" /\ pc = "done" /\ error = NoError)
          /\ (FetchedOk /\ ~FetchedReady) => waitResult # "returned")
    /\ [][(/\ calls' # calls /\ ResponseOk(lastResp') /\ lastResp'.body.kind = "task"
           /\ lastResp'.body.task.status # "error"
           /\ ~(/\ lastResp'.body.task.status = "active"
                /\ lastResp'.body.task.current_state = "idle"))
          => (/\ pc' = "waitSleep" /\ waitResult' = "polling"
              /\ calls'["getTaskById"] = calls["getTaskById"] + 1)]_vars
    /\ [][(pc = "waitSleep" /\ parked' = parked /\ vars' # vars)
          => (/\ pc' = "wait" /\ waitResult' = "polling"
              /\ now' = now + 2000
              /\ calls' = calls /\ lastResp' = lastResp)]_vars

\* A wait that returned on its third fetch
C5_Witness ==
    /\ waitResult = "returned" /\ calls["getTaskById"] = 3
    /\ FetchedOk /\ FetchedReady /\ now = startTime + 4000

\* A wait still polling after fetching an active task whose current state is absent
C5_WitnessActiveNotIdle ==
    /\ pc = "wait" /\ waitResult = "polling" /\ FetchedOk
    /\ Fetched.status = "active" /\ Fetched.current_state = "null"

\* C6: waitForTaskActive fails on the first iteration whose fetched task has status
\* error, with a CoderAPIError of status 500 that carries the fetched task, whatever
\* part of the budget has elapsed; no fetch follows.
C6_ErrorStateIsTerminal ==
    /\ []((FetchedOk /\ Fetched.status = "error") =>
            /\ pc = "failed" /\ waitResult = "threw"
            /\ error.name = "CoderAPIError" /\ error.statusCode = 500
            /\ error.response = Some(Fetched))
    /\ [][waitResult = "threw" => calls' = calls]_vars

\* A wait that failed on a task in error state fetched after the budget had elapsed
C6_Witness ==
    /\ pc = "failed" /\ FetchedOk /\ Fetched.status = "error"
    /\ error.statusCode = 500
    /\ calls["getTaskById"] = 5
    /\ now - startTime >= waitCall[1].timeoutMs

\* C7: waitForTaskActive fails with a CoderAPIError of status 408, whose message
\* carries the budget, when the budget has elapsed at the head of the loop, every
\* task fetched so far having been neither ready nor in error state; the budget is
\* 120,000 ms when the caller gives none.
C7_Timeout ==
    /\ [](/\ waitCall[1].timeoutArg = Undefined => waitCall[1].timeoutMs = 120000
          /\ IsDefined(waitCall[1].timeoutArg) =>
               waitCall[1].timeoutMs = waitCall[1].timeoutArg[1]
          /\ error.statusCode = 408 =>
               /\ error.name = "CoderAPIError"
               /\ error.args = <<waitCall[1].timeoutMs>>
               /\ pc = "failed" /\ waitResult = "threw"
               /\ now - startTime >= waitCall[1].timeoutMs
               /\ calls["getTaskById"] >= 1 =>
                    (FetchedOk /\ ~FetchedReady /\ Fetched.status # "error")
          /\ (waitResult # "polling" /\ FetchedOk /\ ~FetchedReady
                /\ Fetched.status # "error") => error.statusCode = 408)
    /\ [][(pc = "wait" /\ now - startTime >= waitCall[1].timeoutMs /\ vars' # vars)
          => (/\ pc' = "failed" /\ error'.statusCode = 408
              /\ calls' = calls)]_vars

\* A wait with the default budget that timed out on a task that stayed pending
C7_Witness ==
    /\ pc = "failed" /\ error.statusCode = 408 /\ error.args = <<120000>>
    /\ waitCall[1].timeoutArg = Undefined
    /\ FetchedOk /\ Fetched.status = "pending"

\* The three ways a wait ends when every fetch hands over a task
WaitSucceeded == waitResult = "returned" /\ error = NoError
WaitTaskError == waitResult = "threw" /\ error.statusCode = 500
WaitTimedOut == waitResult = "threw" /\ error.statusCode = 408

\* C8: every call of waitForTaskActive ends, and when each fetch handed over a task
\* it ends in exactly one of success, task error and timeout; the number of fetches
\* never exceeds the budget divided by the 2-second interval, plus one.
C8_BoundedPolling ==
    /\ [](calls["getTaskById"] <= (waitCall[1].timeoutMs \div 2000) + 1)
    /\ []((waitResult # "polling" /\ (calls["getTaskById"] = 0 \/ FetchedOk)) =>
            /\ WaitSucceeded \/ WaitTaskError \/ WaitTimedOut
            /\ ~(WaitSucceeded /\ WaitTaskError)
            /\ ~(WaitSucceeded /\ WaitTimedOut)
            /\ ~(WaitTaskError /\ WaitTimedOut))
    /\ [][waitResult # "polling" => UNCHANGED <<waitResult, error, calls>>]_vars
    /\ <>(waitResult # "polling")

\* A wait of budget 7000 ms that spent all the fetches its budget allows and timed out
C8_Witness ==
    /\ WaitTimedOut /\ waitCall[1].timeoutMs = 7000
    /\ calls["getTaskById"] = (7000 \div 2000) + 1

\* C9: when the get-task-by-id request of a wait iteration fails (status not 2xx,
\* or a body that fails the Task schema), the failure leaves the wait in that
\* iteration as it was thrown; no request follows, no input is sent and the run
\* fails without outputs.
C9_FetchFailurePropagates ==
    /\ [][(pc = "wait" /\ calls'["getTaskById"] # calls["getTaskById"] /\ ~FetchedOk')
          => (/\ pc' = "failed" /\ waitResult' = "threw"
              /\ error' = GetTaskById(lastResp').error
              /\ IF ResponseOk(lastResp')
                 THEN error'.name = "ZodError"
                 ELSE /\ error'.name = "CoderAPIError"
                      /\ error'.statusCode = lastResp'.status)]_vars
    /\ [](waitResult = "threw" =>
            (pc = "failed" /\ calls["sendInput"] = 0 /\ outputs = Undefined))
    /\ [][pc = "failed" => UNCHANGED <<calls, ghCalls, outputs>>]_vars

\* A run whose wait was ended by a failed fetch after two that succeeded
C9_Witness ==
    /\ caller = "run" /\ pc = "failed" /\ waitResult = "threw"
    /\ calls["getTaskById"] = 3 /\ ~FetchedOk /\ ~ResponseOk(lastResp)
    /\ error.statusCode = lastResp.status
    /\ calls["sendInput"] = 0

\* A run whose wait was ended by a body that is no task
C9_WitnessSchema ==
    /\ caller = "run" /\ pc = "failed" /\ waitResult = "threw"
    /\ ResponseOk(lastResp) /\ ~FetchedOk /\ error.name = "ZodError"

\* The last response is the user list that answered getCoderUserByGitHubId
UsersAnswered ==
    /\ calls["users"] = 1 /\ calls["template"] = 0
    /\ IsDefined(inputs.githubUserID) /\ inputs.githubUserID[1] > 0
    /\ ResponseOk(lastResp) /\ lastResp.body.kind = "users"

\* C10: getCoderUserByGitHubId, for a positive id: a user list of exactly one user
\* gives that user; an empty list fails with status 404; a list of more than one
\* fails with status 409, and no user of the list is handed over.
C10_ExactlyOneUser ==
    UsersAnswered =>
       LET users == lastResp.body.users IN
       /\ Len(users) = 1 => coderUser = Some(users[1])
       /\ Len(users) = 0 =>
            /\ pc = "failed" /\ coderUser = Undefined
            /\ error.name = "CoderAPIError" /\ error.statusCode = 404
       /\ Len(users) > 1 =>
            /\ pc = "failed" /\ coderUser = Undefined
            /\ error.name = "CoderAPIError" /\ error.statusCode = 409

\* The user list held two users and the request failed with 409
C10_Witness ==
    /\ UsersAnswered /\ Len(lastResp.body.users) = 2
    /\ error.statusCode = 409 /\ coderUser = Undefined

\* The user list held one user, who was handed over
C10_WitnessOne ==
    /\ UsersAnswered /\ Len(lastResp.body.users) = 1
    /\ coderUser = Some(lastResp.body.users[1]) /\ pc = "template"

\* C11: getCoderUserByGitHubId called with an undefined id or with the id 0 throws
\* (a CoderAPIError of status 400, respectively the string "GitHub user ID cannot
\* be 0") and no HTTP request is issued, for this call or after it.
C11_RejectedLocally ==
    (/\ pc # "user"
     /\ (inputs.githubUserID = Undefined \/ inputs.githubUserID = Some(0))) =>
        /\ pc = "failed"
        /\ calls = NoCalls /\ ghCalls = NoGhCalls /\ lastResp = NoResponse
        /\ coderUser = Undefined
        /\ IF inputs.githubUserID = Undefined
           THEN error.name = "CoderAPIError" /\ error.statusCode = 400
           ELSE error.name = "string"

\* The call with id 0 has thrown, with no request issued
C11_Witness ==
    /\ inputs.githubUserID = Some(0) /\ pc = "failed"
    /\ error.name = "string" /\ calls["users"] = 0

\* The call with an undefined id has thrown, with no request issued
C11_WitnessUndefined ==
    /\ inputs.githubUserID = Undefined /\ pc = "failed"
    /\ error.statusCode = 400 /\ calls["users"] = 0

\* The inputs name the user by coderUsername alone
UsernameOnly == inputs.githubUserID = Undefined /\ IsDefined(inputs.coderUsername)

\* C12: a run whose inputs give only a username passes the input validation and
\* its user step resolves the user of that name, or fails on what the remote
\* answered; with the user resolved the run goes on to the template.
C12_UsernameRunResolves ==
    (UsernameOnly /\ pc \notin {"main", "user"}) =>
        \/ /\ IsDefined(coderUser)
           /\ coderUser[1].username = inputs.coderUsername[1]
        \/ pc = "failed" /\ calls["users"] >= 1

\* The last response is the preset list that answered getTemplateVersionPresets
PresetsAnswered ==
    /\ calls["presets"] = 1 /\ calls["listTasks"] = 0
    /\ ResponseOk(lastResp) /\ lastResp.body.kind = "presets"
ListedPresets == lastResp.body.presets
NoneRequested ==
    inputs.coderTemplatePreset = Undefined \/ inputs.coderTemplatePreset = Some("")

\* C13: with no preset name requested (undefined or the empty string) the selected
\* preset id is the id of the first listed preset whose Default flag is set; with no
\* such preset, or an empty list, nothing is selected, the run goes on to the task
\* lookup, and a create request then carries no preset id.
C13_DefaultPreset ==
    /\ (PresetsAnswered /\ NoneRequested) =>
         /\ pc = "lookup" /\ error = NoError
         /\ \A i \in DOMAIN ListedPresets :
              (ListedPresets[i].Default /\ \A j \in 1..(i - 1) : ~ListedPresets[j].Default)
                 => presetID = Some(ListedPresets[i].ID)
         /\ (\A i \in DOMAIN ListedPresets : ~ListedPresets[i].Default)
                 => presetID = Undefined
    /\ (NoneRequested /\ IsDefined(createReq)) =>
         /\ createReq[1].template_version_preset_id = presetID
         /\ presetID \in {Undefined, Some("p2")}

\* No name requested, a list whose second and third presets are default: the
\* second was selected
C13_Witness ==
    /\ PresetsAnswered /\ inputs.coderTemplatePreset = Undefined
    /\ Len(ListedPresets) = 3 /\ presetID = Some("p2")

\* The empty string requested, a list with no default preset: a create request
\* without a preset id was issued
C13_WitnessEmptyName ==
    /\ inputs.coderTemplatePreset = Some("") /\ IsDefined(createReq)
    /\ presetID = Undefined
    /\ createReq[1].template_version_preset_id = Undefined

\* A preset name is requested
NameRequested == ~NoneRequested
RequestedName == inputs.coderTemplatePreset[1]

\* C14: with a preset name requested, the selected preset id is the id of the first
\* listed preset whose name equals the requested name, whether or not later presets
\* have the same name and whatever the Default flags are; the list and the name
\* determine the selection.
C14_NamedPreset ==
    (PresetsAnswered /\ NameRequested) =>
        \A i \in DOMAIN ListedPresets :
           (/\ ListedPresets[i].Name = RequestedName
            /\ \A j \in 1..(i - 1) : ListedPresets[j].Name # RequestedName)
             => (presetID = Some(ListedPresets[i].ID) /\ pc = "lookup" /\ error = NoError)

\* The name "a" requested from a list whose first and third presets are named "a",
\* the third one and another being default: the first was selected
C14_Witness ==
    /\ PresetsAnswered /\ inputs.coderTemplatePreset = Some("a")
    /\ Len(ListedPresets) = 3
    /\ ListedPresets[3].Name = "a" /\ ListedPresets[3].Default
    /\ ~ListedPresets[1].Default
    /\ presetID = Some(ListedPresets[1].ID)

\* C15: with a preset name requested that no listed preset has, the run fails with
\* an Error whose message names the requested preset, having issued no task list,
\* get-task, create or send-input request; none is issued afterwards.
C15_PresetNotFound ==
    /\ []((/\ PresetsAnswered /\ NameRequested
           /\ \A i \in DOMAIN ListedPresets : ListedPresets[i].Name # RequestedName) =>
            /\ pc = "failed"
            /\ error.name = "Error" /\ error.args = <<RequestedName>>
            /\ presetID = Undefined
            /\ calls["listTasks"] = 0 /\ calls["getTaskById"] = 0
            /\ calls["createTask"] = 0 /\ calls["sendInput"] = 0
            /\ createReq = Undefined /\ sendReq = Undefined)
    /\ [][pc = "failed" => UNCHANGED <<pc, calls, remoteTasks>>]_vars

\* The name "zz" requested from a list of three presets, none of that name
C15_Witness ==
    /\ PresetsAnswered /\ inputs.coderTemplatePreset = Some("zz")
    /\ Len(ListedPresets) = 3
    /\ pc = "failed" /\ error.args = <<"zz">> /\ calls["listTasks"] = 0

\* The response received in this step is a 2xx response with a body of the kind
GoodResponse(resp, kind) == ResponseOk(resp) /\ resp.body.kind = kind

\* C16: a run whose user resolution, template fetch, preset fetch or preset
\* selection fails ends there: it has issued no create and no send-input request,
\* the remote holds the tasks it held before, and nothing is issued afterwards.
C16_ResolutionFailureLeavesRemote ==
    /\ [][/\ (pc = "user" /\ calls'["users"] = 1 /\ ~GoodResponse(lastResp', "users"))
              => pc' = "failed"
          /\ (pc = "user" /\ calls'["users"] = 1 /\ GoodResponse(lastResp', "users")
                /\ Len(lastResp'.body.users) # 1)
              => pc' = "failed"
          /\ (pc = "template" /\ ~GoodResponse(lastResp', "template"))
              => pc' = "failed"
          /\ (pc = "presets" /\ ~GoodResponse(lastResp', "presets"))
              => pc' = "failed"
          /\ (pc = "presets" /\ GoodResponse(lastResp', "presets") /\ NameRequested
                /\ \A i \in DOMAIN lastResp'.body.presets :
                      lastResp'.body.presets[i].Name # RequestedName)
              => pc' = "failed"]_vars
    /\ []((pc = "failed" /\ calls["listTasks"] = 0) =>
            /\ calls["createTask"] = 0 /\ calls["sendInput"] = 0
            /\ calls["getTaskById"] = 0
            /\ createReq = Undefined /\ sendReq = Undefined
            /\ remoteTasks \in InitialRemotes)
    /\ [][pc = "failed" => UNCHANGED <<pc, calls, remoteTasks, createReq, sendReq>>]_vars

\* A run that failed on the answer to its preset request, the remote holding two tasks
C16_Witness ==
    /\ pc = "failed" /\ calls["presets"] = 1 /\ calls["listTasks"] = 0
    /\ ~GoodResponse(lastResp, "presets")
    /\ calls["createTask"] = 0 /\ calls["sendInput"] = 0
    /\ Len(remoteTasks) = 2

\* A run that failed on the answer to its template request
C16_WitnessTemplate ==
    /\ pc = "failed" /\ calls["template"] = 1 /\ calls["presets"] = 0
    /\ ~GoodResponse(lastResp, "template") /\ calls["createTask"] = 0

\* No task of the list has the name
NoneNamed(tasks, name) == \A i \in DOMAIN tasks : tasks[i].name # name

\* C17: getTask gives "no task" when the list request is answered 404 and when no
\* listed task has exactly the requested name, and the run goes on to create; on
\* any other failure of the list request (another status outside 2xx, a body that
\* fails the schema) the run fails with that error, and no create request follows.
C17_NoTaskOr404 ==
    /\ [][(pc = "lookup" /\ calls'["listTasks"] = 1) =>
            /\ lastResp'.status = 404
                 => (existingTask' = Undefined /\ pc' = "create" /\ error' = NoError)
            /\ (GoodResponse(lastResp', "tasks")
                  /\ NoneNamed(lastResp'.body.tasks, taskName[1]))
                 => (existingTask' = Undefined /\ pc' = "create" /\ error' = NoError)
            /\ (GoodResponse(lastResp', "tasks")
                  /\ ~NoneNamed(lastResp'.body.tasks, taskName[1]))
                 => (IsDefined(existingTask') /\ existingTask'[1].name = taskName[1]
                       /\ pc' \in {"wait", "send"})
            /\ (~ResponseOk(lastResp') /\ lastResp'.status # 404)
                 => (/\ pc' = "failed" /\ error'.name = "CoderAPIError"
                     /\ error'.statusCode = lastResp'.status)
            /\ (ResponseOk(lastResp') /\ ~GoodResponse(lastResp', "tasks"))
                 => (pc' = "failed" /\ error'.name = "ZodError")]_vars
    /\ [](pc = "create" => (calls["listTasks"] = 1 /\ existingTask = Undefined))
    /\ []((pc = "failed" /\ calls["listTasks"] = 1 /\ calls["getTaskById"] = 0
             /\ calls["sendInput"] = 0 /\ calls["createTask"] = 0)
            => createReq = Undefined)
    /\ [][pc = "failed" => UNCHANGED <<pc, calls, createReq>>]_vars

\* The list request was answered 404 while the remote holds a task of the name:
\* the run created another
C17_Witness ==
    /\ calls["listTasks"] = 1 /\ calls["createTask"] = 1
    /\ existingTask = Undefined /\ Len(remoteTasks) = 3
    /\ remoteTasks[2].name = taskName[1] /\ lastResp.status = 201
    /\ pc = "done" /\ outputs[1].taskCreated

\* The list request was answered 500: the run failed with no create request
C17_WitnessPropagates ==
    /\ pc = "failed" /\ lastResp.status = 500 /\ calls["listTasks"] = 1
    /\ error.statusCode = 500 /\ calls["createTask"] = 0

\* The list held tasks, none of the name: the run went on to create
C17_WitnessNoMatch ==
    /\ pc = "create" /\ GoodResponse(lastResp, "tasks")
    /\ Len(lastResp.body.tasks) = 2
    /\ NoneNamed(lastResp.body.tasks, taskName[1])

\* C18: the input validation accepts the inputs only when exactly one of
\* githubUserID and coderUsername is given: with both given and with neither given
\* main() fails on ActionInputsSchema.parse, before the action is constructed
\* (when core.getInput has read every required input; a run that lacks one of
\* those fails still earlier, on getInput).
C18_ExactlyOneIdentity ==
    /\ (pc # "main" /\ IsDefined(inputs.githubUserID) = IsDefined(inputs.coderUsername)) =>
         /\ pc = "failed"
         /\ error = IF GetInputs(inputs).outcome = "return"
                    THEN ZodError ELSE GetInputs(inputs).error
         /\ calls = NoCalls /\ ghCalls = NoGhCalls
    /\ (pc \notin {"main", "failed"}) =>
         IsDefined(inputs.githubUserID) # IsDefined(inputs.coderUsername)

\* Both githubUserID and coderUsername given: rejected
C18_Witness ==
    /\ pc = "failed" /\ error = ZodError
    /\ inputs.githubUserID = Some(7) /\ inputs.coderUsername = Some("alice")

\* Neither given: rejected
C18_WitnessNeither ==
    /\ pc = "failed" /\ error = ZodError
    /\ inputs.githubUserID = Undefined /\ inputs.coderUsername = Undefined

\* Only githubUserID given: accepted
C18_WitnessAccepted ==
    /\ pc = "user" /\ inputs.githubUserID = Some(7) /\ inputs.coderUsername = Undefined
    /\ inputs.coderTaskNamePrefix = Some("gh")

\* C19: every validation failure of the inputs, the issue URL that does not hold
\* owner/repo/issues/number among them, is raised before any request is issued.
C19_ValidationBeforeNetwork ==
    /\ (pc = "failed" /\ ActionInputsSchemaParse(inputs).outcome = "throw") =>
         (calls = NoCalls /\ ghCalls = NoGhCalls)
    /\ (pc = "failed" /\ error = ParseGithubIssueURL(PullURL).error) =>
         (calls = NoCalls /\ ghCalls = NoGhCalls)

\* The name `{prefix}-{issueNumber}` of the inputs of this run
DerivedName ==
    <<inputs.coderTaskNamePrefix[1], "-",
      IF inputs.githubIssueURL = OtherIssueURL THEN 43 ELSE 42>>

\* C20: the task name is `{prefix}-{issueNumber}`, a function of the prefix and the
\* issue number alone, whatever the remote holds and answers; the name looked up,
\* the name in the create request and the task name in the outputs, on the create
\* path and on the reuse path, all are this name.
C20_TaskName ==
    /\ IsDefined(taskName) => taskName[1] = DerivedName
    /\ (pc \notin {"user", "failed"}) => IsDefined(taskName)
    /\ IsDefined(existingTask) => existingTask[1].name = DerivedName
    /\ IsDefined(createReq) => createReq[1].name = DerivedName
    /\ pc = "done" => outputs[1].taskName = DerivedName

\* A run for issue 43 that reused the first task the remote lists
C20_Witness ==
    /\ pc = "done" /\ ~outputs[1].taskCreated
    /\ inputs.githubIssueURL = OtherIssueURL
    /\ outputs[1].taskName = <<"gh", "-", 43>> /\ existingTask[1].id = 1

\* A run for issue 42 that created its task on a remote holding other tasks
C20_WitnessCreated ==
    /\ pc = "done" /\ outputs[1].taskCreated
    /\ outputs[1].taskName = <<"gh", "-", 42>> /\ Len(remoteTasks) = 3
    /\ calls["listTasks"] = 1 /\ GoodResponse(lastResp, "task")

\* The concurrent invocation
Peer == parked[1]
DifferentIssues ==
    IsDefined(parked) /\ inputs.githubIssueURL # Peer.inputs.githubIssueURL
SameIssue ==
    IsDefined(parked) /\ inputs.githubIssueURL = Peer.inputs.githubIssueURL

\* The ids of the tasks an invocation has found, waited for, created or sent input to
TouchedIds(l) ==
    {l.existingTask[i].id : i \in DOMAIN l.existingTask}
    \cup {l.createdTask[i].id : i \in DOMAIN l.createdTask}
    \cup {l.sendReq[i].taskId : i \in DOMAIN l.sendReq}
    \cup {l.waitCall[i].taskId : i \in DOMAIN l.waitCall}

\* C21: two concurrent invocations of one owner and prefix for different issues
\* have different task names, and no task is found, waited for, created or sent
\* input to by both.
C21_DifferentIssuesApart ==
    DifferentIssues =>
        /\ taskName # Peer.taskName
        /\ TouchedIds(Locals) \cap TouchedIds(Peer) = {}
        /\ (IsDefined(createReq) /\ IsDefined(Peer.createReq))
             => createReq[1].name # Peer.createReq[1].name
        /\ \A i \in DOMAIN remoteTasks :
             ~(remoteTasks[i].name = taskName[1] /\ remoteTasks[i].name = Peer.taskName[1])

\* The invocation for issue 43 sent input to the task it found while the one for
\* issue 42 created its task
C21_Witness ==
    /\ DifferentIssues /\ pc = "done" /\ Peer.pc = "done"
    /\ TouchedIds(Locals) \cup TouchedIds(Peer) = {1, 2}
    /\ outputs[1].taskCreated # Peer.outputs[1].taskCreated

\* The answer to a list request showed no task of the name
SawNoTask(resp, name) ==
    resp.status = 404 \/ (GoodResponse(resp, "tasks") /\ NoneNamed(resp.body.tasks, name))

\* The tasks of a name that the remote holds
NamedIn(held, name) == {i \in DOMAIN held : held[i].name = name}

\* C22: two concurrent invocations for one issue and owner.  An invocation goes on
\* to create only after a list answer that showed no task of the name; from there
\* its one step is the create request for that name, whatever the remote has come
\* to hold since the lookup; no step removes or renames a task the remote holds.
\* So both invocations can see no task and both create a task of the one name.
C22_LookupThenCreateRace ==
    /\ [](pc = "create" => SawNoTask(lastResp, taskName[1]))
    /\ [][(pc = "create" /\ parked' = parked /\ vars' # vars) =>
            /\ calls'["createTask"] = calls["createTask"] + 1
            /\ calls'["listTasks"] = calls["listTasks"]
            /\ createReq'[1].name = taskName[1]
            /\ (lastResp'.status = 201 /\ NamedIn(remoteTasks, taskName[1]) # {})
                 => Cardinality(NamedIn(remoteTasks', taskName[1])) >= 2]_vars
    /\ [][/\ Len(remoteTasks') >= Len(remoteTasks)
          /\ \A i \in DOMAIN remoteTasks : remoteTasks'[i] = remoteTasks[i]]_vars
    /\ [][(pc \in {"done", "failed"} /\ parked' = parked) => vars' = vars]_vars

\* Both invocations for issue 42 saw no task and both created one: the remote holds
\* two tasks of the name
C22_Witness ==
    /\ SameIssue /\ pc = "done" /\ Peer.pc = "done"
    /\ outputs[1].taskCreated /\ Peer.outputs[1].taskCreated
    /\ createReq = Peer.createReq
    /\ createdTask[1].id # Peer.createdTask[1].id
    /\ Cardinality(NamedIn(remoteTasks, taskName[1])) = 2

\* Both invocations for issue 42 stand before their create request, each after a
\* list answer of the tasks held, none of the name
C22_WitnessBothSawNone ==
    /\ SameIssue /\ pc = "create" /\ Peer.pc = "create"
    /\ GoodResponse(lastResp, "tasks") /\ GoodResponse(Peer.lastResp, "tasks")
    /\ NamedIn(remoteTasks, taskName[1]) = {}

\* https://h.test/?x=1#y
ExampleUrl ==
    [scheme |-> "https", segs |-> <<"h.test">>, trailingSlashes |-> 1,
     query |-> Some("x=1"), fragment |-> Some("y")]

\* C23: generateTaskUrl gives {base}/tasks/{username}/{taskId}, base being the
\* deployment URL without its query and fragment and without the slash at its end;
\* for https://h.test/?x=1#y, username u and task id t it gives
\* https://h.test/tasks/u/t.
C23_TaskUrl ==
    pc = "done" =>
        LET u == outputs[1].taskUrl IN
        /\ u.path = <<"tasks", inputs.coderUsername, inputs.taskID>>
        /\ u.base.scheme = inputs.coderURL.scheme
        /\ u.base.segs = inputs.coderURL.segs
        /\ u.base.query = Undefined /\ u.base.fragment = Undefined
        /\ u.base.trailingSlashes =
              IF inputs.coderURL.trailingSlashes = 0 THEN 0
              ELSE inputs.coderURL.trailingSlashes - 1
        /\ (inputs.coderURL.trailingSlashes <= 1) => u.base = Url(inputs.coderURL.segs)
        /\ (inputs = [coderURL |-> ExampleUrl, coderUsername |-> "u", taskID |-> "t"])
             => u = [base |-> Url(<<"h.test">>), path |-> <<"tasks", "u", "t">>]

\* The call for https://h.test/?x=1#y, u and t has returned https://h.test/tasks/u/t
C23_Witness ==
    /\ pc = "done"
    /\ inputs = [coderURL |-> ExampleUrl, coderUsername |-> "u", taskID |-> "t"]
    /\ outputs[1].taskUrl = [base |-> Url(<<"h.test">>), path |-> <<"tasks", "u", "t">>]

\* A step of the running invocation that issued a request to the remote
RequestStep == parked' = parked /\ calls' # calls

\* C24: request raises on every response whose status is outside 2xx a
\* CoderAPIError with the status of the response and the text of its body, the
\* empty text when the body cannot be read; the run fails with that error, except
\* that getTask takes the 404 of the list request for "no task".
C24_NonOkRaises ==
    [][(RequestStep /\ ~ResponseOk(lastResp')) =>
         IF pc = "lookup" /\ lastResp'.status = 404
         THEN pc' = "create" /\ error' = NoError
         ELSE /\ pc' = "failed"
              /\ error'.name = "CoderAPIError"
              /\ error'.statusCode = lastResp'.status
              /\ error'.response =
                   Some(IF lastResp'.body = UnreadableBody THEN EmptyBody
                        ELSE lastResp'.body)]_vars

\* The user request was answered 502 with a body that could not be read
C24_Witness ==
    /\ pc = "failed" /\ lastResp = HttpResponse(502, UnreadableBody)
    /\ error.name = "CoderAPIError" /\ error.statusCode = 502
    /\ error.response = Some(EmptyBody)

\* The create request was answered 500: the error carries the body
C24_WitnessBody ==
    /\ pc = "failed" /\ calls["createTask"] = 1 /\ lastResp.status = 500
    /\ error.statusCode = 500 /\ error.response = Some(ErrorBody)

\* A successful response without content: status 204 or content-length 0
EmptySuccess(resp) ==
    ResponseOk(resp) /\ (resp.status = 204 \/ resp.body = EmptyBody)

\* C25: request returns a 2xx response with status 204 or zero content-length as
\* a successful empty result without parsing its body, and sendTaskInput
\* succeeds on such a response: the run ends with the outputs of the reuse path.
C25_EmptySuccess ==
    [][(pc = "send" /\ RequestStep /\ EmptySuccess(lastResp')) =>
         /\ Request(lastResp') = Return(UndefinedBody)
         /\ pc' = "done" /\ error' = NoError
         /\ IsDefined(outputs') /\ ~outputs'[1].taskCreated
         /\ outputs'[1].taskName = existingTask[1].name]_vars

\* Input was sent and answered 200 with content-length 0
C25_Witness ==
    /\ pc = "done" /\ calls["sendInput"] = 1
    /\ lastResp = HttpResponse(200, EmptyBody) /\ IsDefined(outputs)

\* Input was sent and answered 204
C25_Witness204 ==
    /\ pc = "done" /\ calls["sendInput"] = 1
    /\ lastResp.status = 204 /\ IsDefined(outputs)

\* The steps of a run whose client operation hands remote data to run()
DataSteps == {"user", "template", "presets", "lookup", "wait", "create"}

\* The schema the operation of a step parses the body with
SchemaOf(step) ==
    CASE step = "user" -> "users"
      [] step = "template" -> "template"
      [] step = "presets" -> "presets"
      [] step = "lookup" -> "tasks"
      [] step \in {"wait", "create"} -> "task"

\* C26: user search, get template, get presets, list tasks, get task by id and
\* create task hand the body of a successful response on only when it passed
\* their schema; a successful response whose body fails the schema fails the
\* operation with the schema error, which ends the run (the list request
\* included: it is not taken for "no task"), and none of the data is kept.
C26_SchemaBeforeData ==
    [][(pc \in DataSteps /\ RequestStep /\ ResponseOk(lastResp')) =>
         /\ GoodResponse(lastResp', SchemaOf(pc)) =>
              (error'.name # "ZodError" /\ (pc' = "failed" => error'.name # "TypeError"))
         /\ ~GoodResponse(lastResp', SchemaOf(pc)) =>
              /\ pc' = "failed"
              /\ error'.name = IF lastResp'.body = UnreadableBody
                               THEN "TypeError" ELSE "ZodError"
              /\ UNCHANGED <<coderUser, template, presetID, existingTask,
                             createdTask, outputs>>]_vars

\* The list request was answered 200 with a body that fails the schema
C26_Witness ==
    /\ pc = "failed" /\ calls["listTasks"] = 1 /\ calls["createTask"] = 0
    /\ lastResp = HttpResponse(200, MalformedBody) /\ error.name = "ZodError"
    /\ existingTask = Undefined

\* The create request was answered 201 with a body that fails the schema
C26_WitnessCreate ==
    /\ pc = "failed" /\ calls["createTask"] = 1
    /\ lastResp = HttpResponse(201, MalformedBody) /\ error.name = "ZodError"
    /\ createdTask = Undefined /\ outputs = Undefined

\* The task fetched while waiting came with a body that fails the schema
C26_WitnessById ==
    /\ pc = "failed" /\ calls["getTaskById"] >= 1 /\ calls["sendInput"] = 0
    /\ lastResp = HttpResponse(200, MalformedBody) /\ error.name = "ZodError"

\* The steps of run() that call a client operation other than waitForTaskActive,
\* and the operation each of them calls
SingleSteps == {"user", "template", "presets", "lookup", "send", "create"}
OpOf(step) ==
    CASE step = "user" -> "users"
      [] step = "template" -> "template"
      [] step = "presets" -> "presets"
      [] step = "lookup" -> "listTasks"
      [] step = "send" -> "sendInput"
      [] step = "create" -> "createTask"

\* The call of the client operation of a step has been made and has ended
OperationCalled == pc \in SingleSteps /\ pc' # pc /\ parked' = parked

\* The requests of a run, all operations together
RECURSIVE SumCalls(_, _)
SumCalls(c, ops) ==
    IF ops = {} THEN 0
    ELSE LET op == CHOOSE o \in ops : TRUE IN c[op] + SumCalls(c, ops \ {op})

\* No request follows a failure; every request carries the session token of the
\* inputs; waitForTaskActive fetches again only after a fetch that handed over a
\* task neither in error state nor ready.
NoRetry ==
    /\ [](\A op \in Ops \ {"getTaskById"} : calls[op] <= 1)
    /\ []((SumCalls(calls, Ops) > 0) = (sentHeaders # {}))
    /\ [](\A h \in sentHeaders : h.CoderSessionToken = inputs.coderToken)
    /\ [][(pc \in {"failed", "done"}) => UNCHANGED <<calls, sentHeaders>>]_vars
    /\ [][(calls'["getTaskById"] > calls["getTaskById"] /\ calls["getTaskById"] >= 1)
            => (FetchedOk /\ Fetched.status # "error" /\ ~FetchedReady)]_vars

\* C27 as stated: every call of a client operation other than waitForTaskActive
\* issues exactly one request, with the session-token header, and there is no
\* retry.  The user search given the id 0 or no id issues none.
C27_ExactlyOneRequest ==
    /\ NoRetry
    /\ [][OperationCalled =>
            /\ calls'[OpOf(pc)] = calls[OpOf(pc)] + 1
            /\ SumCalls(calls', Ops) = SumCalls(calls, Ops) + 1]_vars

\* C27: every call of a client operation other than waitForTaskActive issues
\* exactly one request, except that the user search given the id 0 or no id is
\* rejected before its request and issues none; every request carries the
\* session-token header; no request is issued again after a failure, and
\* waitForTaskActive fetches again only after a successful fetch that showed a
\* task neither in error state nor ready.
C27_OneRequestUnlessRejected ==
    /\ NoRetry
    /\ [][OperationCalled =>
            LET n == IF pc = "user" /\ inputs.githubUserID \in {Undefined, Some(0)}
                     THEN 0 ELSE 1
            IN /\ calls'[OpOf(pc)] = calls[OpOf(pc)] + n
               /\ SumCalls(calls', Ops) = SumCalls(calls, Ops) + n]_vars

\* A run that fetched the task more than once while waiting and then sent the input
C27_Witness ==
    /\ pc = "done" /\ calls["getTaskById"] >= 2 /\ calls["sendInput"] = 1
    /\ calls["users"] = 1 /\ calls["listTasks"] = 1
    /\ sentHeaders = {[CoderSessionToken |-> "token", ContentType |-> "application/json"]}

\* The user search given the id 0 failed without a request
C27_WitnessRejected ==
    /\ pc = "failed" /\ inputs.githubUserID = Some(0)
    /\ SumCalls(calls, Ops) = 0 /\ sentHeaders = {}

\* The comments of the issue that start with the prefix, and the last of them
TaskCommentsOf(cs) == {k \in DOMAIN cs : IsTaskComment(cs[k])}
LastOf(ks) == CHOOSE k \in ks : \A j \in ks : j <= k
NewComment(taskUrl) ==
    [body |-> Some([prefix |-> "Task created:", url |-> taskUrl])]

\* The last comment with the prefix among cs, 0 when there is none
LastListed(cs) == IF TaskCommentsOf(cs) = {} THEN 0 ELSE LastOf(TaskCommentsOf(cs))

\* A call of commentOnIssue was made and the comments were listed to it
CommentsListed ==
    /\ ghCalls'["listComments"] = ghCalls["listComments"] + 1
    /\ Len(ghPending') = Len(ghPending) + 1

\* The call at place k of those listed sent its update or create request
CommentWritten(k) ==
    /\ k \in DOMAIN ghPending
    /\ ghPending' = SubSeq(ghPending, 1, k - 1) \o SubSeq(ghPending, k + 1, Len(ghPending))
    /\ ghLast' # Undefined /\ ghLast'[1].url = ghPending[k].url /\ ghLast'[1].listOk

\* C28: commentOnIssue, once the comments are listed: when a listed comment starts
\* with "Task created:", the last such comment is the one updated, its body
\* becoming the new task URL after the prefix, the other comments staying as they
\* are, and no comment is created; otherwise one comment with the prefix and the
\* URL is created at the end.  (A write GitHub refuses leaves the comments as
\* they are.)  So a call whose listing still shows the issue as it is when it
\* writes, as every call made after the one before has ended does, changes the
\* number of comments with the prefix only from 0 to 1: calls repeated on an
\* issue without such a comment leave exactly one.
C28_UpdateLastOrCreateOne ==
    /\ [][CommentsListed =>
            /\ ghPending'[Len(ghPending')].target = LastListed(ghComments)
            /\ SubSeq(ghPending', 1, Len(ghPending)) = ghPending
            /\ ghComments' = ghComments
            /\ ghCalls'["updateComment"] = ghCalls["updateComment"]
            /\ ghCalls'["createComment"] = ghCalls["createComment"]]_vars
    /\ [][Len(ghPending') < Len(ghPending) =>
            \E k \in DOMAIN ghPending :
              LET call == ghPending[k] IN
              /\ CommentWritten(k)
              /\ ghCalls'["listComments"] = ghCalls["listComments"]
              /\ IF call.target > 0
                 THEN /\ ghCalls'["updateComment"] = ghCalls["updateComment"] + 1
                      /\ ghCalls'["createComment"] = ghCalls["createComment"]
                      /\ ghComments' =
                           IF ghLast'[1].writeOk
                           THEN [j \in DOMAIN ghComments |->
                                   IF j = call.target THEN NewComment(call.url)
                                   ELSE ghComments[j]]
                           ELSE ghComments
                 ELSE /\ ghCalls'["createComment"] = ghCalls["createComment"] + 1
                      /\ ghCalls'["updateComment"] = ghCalls["updateComment"]
                      /\ ghComments' =
                           IF ghLast'[1].writeOk
                           THEN ghComments \o <<NewComment(call.url)>>
                           ELSE ghComments]_vars
    /\ [][(\E k \in DOMAIN ghPending :
             CommentWritten(k) /\ ghPending[k].target = LastListed(ghComments)) =>
            Cardinality(TaskCommentsOf(ghComments')) =
              IF TaskCommentsOf(ghComments) = {} /\ ghComments' # ghComments
              THEN 1 ELSE Cardinality(TaskCommentsOf(ghComments))]_vars
    /\ [][ghComments' # ghComments => Len(ghPending') < Len(ghPending)]_vars

\* Two calls on an issue without a task comment: the first created the comment,
\* the second updated it with another URL, and one comment has the prefix
C28_Witness ==
    /\ pc = "commentCall" /\ ghCalls["listComments"] = 2
    /\ ghCalls["createComment"] = 1 /\ ghCalls["updateComment"] = 1
    /\ ghLast[1].writeOk
    /\ Cardinality(TaskCommentsOf(ghComments)) = 1
    /\ \E k \in DOMAIN ghComments :
         ghComments[k] = NewComment(ghLast[1].url) /\ ghLast[1].url # OldTaskUrl
    /\ Len(ghComments) = 3

\* Two calls started together on an issue without a comment: each listed the
\* issue before the other wrote, and each created a comment
C28_WitnessOverlap ==
    /\ pc = "commentCall" /\ ghPending = <<>>
    /\ ghCalls["listComments"] = 2 /\ ghCalls["createComment"] = 2
    /\ Len(ghComments) = 2 /\ Cardinality(TaskCommentsOf(ghComments)) = 2

\* Of two comments with the prefix the later one was updated
C28_WitnessLast ==
    /\ Len(ghComments) = 3 /\ ghCalls["updateComment"] = 1
    /\ ghCalls["createComment"] = 0
    /\ ghComments[1] = NewComment(OldTaskUrl)
    /\ ~IsTaskComment(ghComments[3]) /\ IsDefined(ghLast) /\ ghLast[1].writeOk
    /\ ghComments[2] = NewComment(ghLast[1].url) /\ ghLast[1].url # OldTaskUrl

\* A request of the Coder client failed: a status outside 2xx (the 404 of the
\* list request apart, which getTask takes for "no task") or a body that is not
\* what the operation parses
ClientCallFailed ==
    /\ RequestStep
    /\ \/ ~ResponseOk(lastResp') /\ ~(pc = "lookup" /\ lastResp'.status = 404)
       \/ pc \in DataSteps /\ ResponseOk(lastResp') /\ ~GoodResponse(lastResp', SchemaOf(pc))

\* A request of commentOnIssue to GitHub failed
CommentCallFailed ==
    /\ pc \in {"comment", "commentWrite"} /\ ghLast' # ghLast
    /\ IsDefined(ghLast') /\ ~ghLast'[1].writeOk

\* An error ends the run at once: no outputs, one error for main() to report,
\* and no step after it
AbortsAtOnce ==
    /\ [][ClientCallFailed => (pc' = "failed" /\ error' # NoError)]_vars
    /\ [][error' # error => (error = NoError /\ pc' = "failed")]_vars
    /\ []((pc = "failed") = (error # NoError))
    /\ [](pc = "failed" => (outputs = Undefined /\ FailureMessage(error) # ""))
    /\ [][pc = "failed" => UNCHANGED <<pc, error, outputs, calls, ghCalls, remoteTasks,
                                        ghComments>>]_vars

\* C29 as stated: every error raised during a run aborts the run at once, with no
\* further step or remote call, no outputs and one failure message.  A failure of
\* commentOnIssue does not: it is caught, and the run ends with its outputs.
C29_EveryErrorAborts ==
    /\ AbortsAtOnce
    /\ [][CommentCallFailed => (pc' = "failed" /\ outputs' = Undefined)]_vars

\* C29: every error raised during a run, other than a failure of a request of
\* commentOnIssue, aborts the run at once: no further step or remote call, no
\* outputs, and one failure message for main() to surface.  A failure of
\* commentOnIssue is caught: the run ends successfully with its outputs.
C29_ErrorsAbortButComment ==
    /\ AbortsAtOnce
    /\ [][CommentCallFailed =>
            (pc' = "done" /\ error' = NoError /\ IsDefined(outputs')
               /\ outputs'[1].taskCreated)]_vars

\* The send-input request failed: the run failed without outputs
C29_Witness ==
    /\ pc = "failed" /\ calls["sendInput"] = 1 /\ ~ResponseOk(lastResp)
    /\ outputs = Undefined /\ FailureMessage(error) = "Coder API error"

\* The comment could not be written: the run ended with its outputs
C29_WitnessComment ==
    /\ pc = "done" /\ IsDefined(ghLast) /\ ~ghLast[1].writeOk
    /\ ghCalls["createComment"] = 1 /\ ghComments = <<>>
    /\ IsDefined(outputs) /\ error = NoError

\* The fields of an input set whose value the caller supplied
RequiredFields ==
    {"coderTaskPrompt", "coderToken", "coderURL", "coderTemplateName", "githubIssueURL"}
OptionalFields ==
    {"coderOrganization", "coderTaskNamePrefix", "coderTemplatePreset", "commentOnIssue",
     "githubUserID", "coderUsername"}

\* Every required field is valid, one identity is given and valid, and what is
\* given of organization and prefix is not empty
ValidInputSet(raw) ==
    /\ raw.coderTaskPrompt # "" /\ raw.coderToken # "" /\ raw.coderTemplateName # ""
    /\ raw.coderURL.scheme # "" /\ raw.githubIssueURL.scheme # ""
    /\ \/ raw.githubUserID # Undefined /\ raw.githubUserID[1] >= 1
          /\ raw.coderUsername = Undefined
       \/ raw.githubUserID = Undefined /\ raw.coderUsername # Undefined
          /\ raw.coderUsername[1] # ""
    /\ raw.coderOrganization # Some("") /\ raw.coderTaskNamePrefix # Some("")

\* C30: ActionInputsSchema.parse rejects an id of 0 or below, an empty username,
\* an empty prompt, session token or template name, and a deployment URL or issue
\* URL that is not a URL; a valid input set is accepted, every value it supplies
\* unchanged (an optional field left out takes its default or stays absent).
C30_SchemaRejectsAndAccepts ==
    [][(pc = "main" /\ pc' # pc) =>
         /\ (inputs.githubUserID # Undefined /\ inputs.githubUserID[1] <= 0)
              => pc' = "failed"
         /\ inputs.coderUsername = Some("") => pc' = "failed"
         /\ (inputs.coderTaskPrompt = "" \/ inputs.coderToken = ""
               \/ inputs.coderTemplateName = "") => pc' = "failed"
         /\ (inputs.coderURL = NotAUrl \/ inputs.githubIssueURL = NotAUrl)
              => pc' = "failed"
         /\ pc' = "failed" => (error' = ZodError /\ inputs' = inputs)
         /\ ValidInputSet(inputs) =>
              /\ pc' = "user" /\ error' = NoError
              /\ \A f \in RequiredFields : inputs'[f] = inputs[f]
              /\ \A f \in OptionalFields :
                    inputs[f] # Undefined => inputs'[f] = inputs[f]
              /\ inputs'.githubUserID = inputs.githubUserID
              /\ inputs'.coderUsername = inputs.coderUsername
              /\ inputs'.coderTemplatePreset = inputs.coderTemplatePreset]_vars

\* A valid input set with an id, an organization and a prefix was accepted
C30_Witness ==
    /\ pc = "user" /\ calls = NoCalls /\ error = NoError
    /\ inputs.githubUserID = Some(7) /\ inputs.coderUsername = Undefined
    /\ inputs.coderOrganization = Some("acme") /\ inputs.coderTaskNamePrefix = Some("task")
    /\ inputs.commentOnIssue = Some(FALSE) /\ inputs.coderTemplatePreset = Some("")

\* An input set whose only fault is the id 0 was rejected
C30_WitnessZero ==
    /\ pc = "failed" /\ error = ZodError
    /\ ValidInputSet([inputs EXCEPT !.githubUserID = Some(7)])
    /\ inputs.githubUserID = Some(0)

\* An input set whose only fault is the deployment URL was rejected
C30_WitnessUrl ==
    /\ pc = "failed" /\ error = ZodError
    /\ ValidInputSet([inputs EXCEPT !.coderURL = Url(<<"coder.test">>)])
    /\ inputs.coderURL = NotAUrl

\* The inputs main() was started with are valid but for what they leave out
LeftOutOnly ==
    /\ pc = "main"
    /\ inputs.coderTaskPrompt # "" /\ inputs.coderToken # ""
    /\ inputs.coderTemplateName # ""
    /\ IsUrl(inputs.coderURL) /\ IsUrl(inputs.githubIssueURL)
    /\ inputs.githubUserID # Undefined /\ inputs.githubUserID[1] >= 1
    /\ inputs.coderUsername = Undefined
    /\ inputs.coderOrganization # Some("") /\ inputs.coderTaskNamePrefix # Some("")

\* C31: a run started without the organization, the task-name prefix or the
\* comment toggle goes on with organization "default", prefix "gh" and the toggle
\* true.  main() reads the organization and the prefix with required: true, so a
\* run started without one of them fails before the schema fills anything in.
C31_DefaultsUsed ==
    [][(LeftOutOnly /\ pc' # pc) =>
         /\ pc' = "user"
         /\ inputs.coderOrganization = Undefined
              => inputs'.coderOrganization = Some("default")
         /\ inputs.coderTaskNamePrefix = Undefined
              => inputs'.coderTaskNamePrefix = Some("gh")
         /\ inputs.commentOnIssue = Undefined
              => inputs'.commentOnIssue = Some(TRUE)]_vars

\* What does hold: the toggle left out is taken as true and the run comments
C31_ToggleDefault ==
    [][(LeftOutOnly /\ pc' = "user") =>
         /\ inputs.coderOrganization # Undefined /\ inputs.coderTaskNamePrefix # Undefined
         /\ inputs.commentOnIssue = Undefined => inputs'.commentOnIssue = Some(TRUE)]_vars

\* The task as this run last observed it: the task fetched last by the wait, or
\* the listed task when the run did not wait
LastObserved ==
    IF calls["getTaskById"] >= 1 THEN Fetched ELSE existingTask[1]

\* C32: on the reuse path the send-input request is issued only for a task this
\* run last observed with status active and current state idle.  run() tests the
\* status alone: a task listed as active is sent the input at once, whatever its
\* current state.
C32_SendOnlyWhenReady ==
    pc = "send" =>
        /\ IsDefined(existingTask)
        /\ LastObserved.status = "active" /\ LastObserved.current_state = "idle"

\* What does hold: input is sent to a task listed as active, or after a wait
\* that returned on a fetched task that was active and idle
C32_SendWhenActiveOrWaited ==
    pc = "send" =>
        /\ IsDefined(existingTask)
        /\ IF calls["getTaskById"] >= 1
           THEN waitResult = "returned" /\ FetchedOk /\ FetchedReady
           ELSE existingTask[1].status = "active"

\* The answer to the call before the one a step issues was a success: the first
\* call has none before it; the list request answered 404 is taken for "no
\* task", which is a success of getTask
PreviousCallSucceeded ==
    CASE pc = "user" -> lastResp = NoResponse
      [] pc = "template" -> GoodResponse(lastResp, "users")
      [] pc = "presets" -> GoodResponse(lastResp, "template")
      [] pc = "lookup" -> GoodResponse(lastResp, "presets")
      [] pc = "create" -> GoodResponse(lastResp, "tasks") \/ lastResp.status = 404
      [] pc \in {"wait", "send"} ->
           IF calls["getTaskById"] = 0 THEN GoodResponse(lastResp, "tasks")
           ELSE GoodResponse(lastResp, "task")
      [] OTHER -> FALSE

\* C33: the remote calls of a run come in the order user resolution, template
\* fetch, preset fetch, task lookup, then either the wait (if any) and send-input
\* or create; a call is issued only when the call before it has returned
\* successfully, and a step issues one call at most.
C33_CallOrder ==
    /\ [](/\ calls["template"] >= 1 => (calls["users"] = 1 /\ IsDefined(coderUser))
          /\ calls["presets"] >= 1 => (calls["template"] = 1 /\ IsDefined(template))
          /\ calls["listTasks"] >= 1 => calls["presets"] = 1
          /\ (calls["getTaskById"] >= 1 \/ calls["sendInput"] >= 1) =>
               (calls["listTasks"] = 1 /\ IsDefined(existingTask)
                  /\ calls["createTask"] = 0)
          /\ (calls["sendInput"] >= 1 /\ calls["getTaskById"] >= 1) =>
               waitResult = "returned"
          /\ calls["createTask"] >= 1 =>
               (calls["listTasks"] = 1 /\ existingTask = Undefined
                  /\ calls["getTaskById"] = 0 /\ calls["sendInput"] = 0))
    /\ [][RequestStep =>
            /\ error = NoError /\ PreviousCallSucceeded
            /\ SumCalls(calls', Ops) = SumCalls(calls, Ops) + 1
            /\ calls'[CASE pc = "wait" -> "getTaskById" [] OTHER -> OpOf(pc)]
                 = calls[CASE pc = "wait" -> "getTaskById" [] OTHER -> OpOf(pc)] + 1]_vars

\* A run that made all the calls of the reuse path, the wait included
C33_Witness ==
    /\ pc = "done" /\ calls["users"] = 1 /\ calls["template"] = 1
    /\ calls["presets"] = 1 /\ calls["listTasks"] = 1
    /\ calls["getTaskById"] >= 2 /\ calls["sendInput"] = 1 /\ calls["createTask"] = 0

\* A run that made all the calls of the create path
C33_WitnessCreate ==
    /\ pc = "done" /\ calls["users"] = 1 /\ calls["template"] = 1
    /\ calls["presets"] = 1 /\ calls["listTasks"] = 1
    /\ calls["getTaskById"] = 0 /\ calls["sendInput"] = 0 /\ calls["createTask"] = 1

\* The requests of this run that deliver the prompt
PromptRequests == calls["createTask"] + calls["sendInput"]

\* C34: a successful run has issued exactly one request that delivers the prompt,
\* a create request with the prompt as input or a send-input request with the
\* prompt, never both and never two of one kind; a failed run has issued one at
\* most.
C34_OnePromptRequest ==
    /\ PromptRequests <= 1
    /\ pc = "done" => PromptRequests = 1
    /\ calls["createTask"] = 1 <=> IsDefined(createReq)
    /\ calls["sendInput"] = 1 <=> IsDefined(sendReq)
    /\ IsDefined(createReq) => createReq[1].input = inputs.coderTaskPrompt
    /\ IsDefined(sendReq) => sendReq[1].input = inputs.coderTaskPrompt

\* A successful run that sent the prompt to the task it found
C34_Witness ==
    /\ pc = "done" /\ calls["sendInput"] = 1 /\ calls["createTask"] = 0
    /\ sendReq[1].input = "fix the bug"

\* A successful run that created the task with the prompt
C34_WitnessCreate ==
    /\ pc = "done" /\ calls["createTask"] = 1 /\ calls["sendInput"] = 0
    /\ createReq[1].input = "fix the bug"

\* A run that failed after its one prompt request
C34_WitnessFailed ==
    /\ pc = "failed" /\ PromptRequests = 1

\* The run is on the reuse path: the lookup found the task
OnReusePath == IsDefined(existingTask)

\* C35: no step deletes or changes a task the remote holds: the tasks held stay
\* as they are and a task is added only by the answer to a create request; the
\* only requests issued that are not GET are create-task and send-input; and
\* when the wait or the send-input request fails on an existing task the run
\* fails there and issues no request afterwards, the remote holding what it held.
C35_NoDeleteNoRollback ==
    /\ [][/\ Len(remoteTasks') >= Len(remoteTasks)
          /\ \A i \in DOMAIN remoteTasks : remoteTasks'[i] = remoteTasks[i]
          /\ remoteTasks' # remoteTasks =>
               (pc = "create" /\ calls'["createTask"] = calls["createTask"] + 1
                  /\ Len(remoteTasks') = Len(remoteTasks) + 1)]_vars
    /\ [](\A op \in Ops : (calls[op] > 0 /\ MethodOf(op) # "GET") =>
                             op \in {"createTask", "sendInput"})
    /\ [][(pc \in {"wait", "send"} /\ RequestStep
             /\ ~GoodResponse(lastResp', "task") /\ ~(pc = "send" /\ ResponseOk(lastResp')))
            => (pc' = "failed" /\ remoteTasks' = remoteTasks)]_vars
    /\ []((pc = "failed" /\ OnReusePath) =>
            (calls["createTask"] = 0 /\ remoteTasks \in InitialRemotes))
    /\ [][pc = "failed" => UNCHANGED <<calls, sentHeaders, remoteTasks>>]_vars

\* The send-input request to the existing task failed after a wait; the remote
\* holds the two tasks it held
C35_Witness ==
    /\ pc = "failed" /\ OnReusePath /\ calls["sendInput"] = 1
    /\ calls["getTaskById"] >= 1 /\ ~ResponseOk(lastResp)
    /\ Len(remoteTasks) = 2

\* The wait failed on a fetch
C35_WitnessWait ==
    /\ pc = "failed" /\ OnReusePath /\ waitResult = "threw" /\ calls["sendInput"] = 0
    /\ ~ResponseOk(lastResp) /\ Len(remoteTasks) = 2

\* The time elapsed in the wait, and a step of it that fetched the task
Elapsed == now - startTime
FetchStep == calls'["getTaskById"] = calls["getTaskById"] + 1

\* C36: waitForTaskActive compares the elapsed time with the budget before every
\* fetch: a fetch is started only while the elapsed time is below the budget;
\* once it has reached the budget the only step is the failure with the timeout
\* error, without a fetch, whatever state the task is in by then (so a task that
\* became ready during the last sleep is not seen); with a budget of 0 the wait
\* fails with the timeout error without one fetch.
C36_BudgetBeforeFetch ==
    /\ [][FetchStep => (pc = "wait" /\ Elapsed < waitCall[1].timeoutMs)]_vars
    /\ [][(pc = "wait" /\ Elapsed >= waitCall[1].timeoutMs /\ vars' # vars) =>
            /\ ~FetchStep /\ lastResp' = lastResp
            /\ pc' = "failed" /\ waitResult' = "threw"
            /\ error'.statusCode = 408 /\ error'.args = <<waitCall[1].timeoutMs>>]_vars
    /\ [](waitCall[1].timeoutMs = 0 =>
            /\ calls["getTaskById"] = 0 /\ lastResp = NoResponse
            /\ pc \in {"wait", "failed"}
            /\ pc = "failed" => error.statusCode = 408)

\* A wait with the budget 0 failed with the timeout error without a fetch
C36_Witness ==
    /\ pc = "failed" /\ waitCall[1].timeoutArg = Some(0)
    /\ calls["getTaskById"] = 0 /\ error.statusCode = 408 /\ error.args = <<0>>

\* A wait whose one fetch showed a task not ready, whose sleep used up the budget
\* and which then failed with the timeout error without a second fetch
C36_WitnessFinalSleep ==
    /\ pc = "failed" /\ waitCall[1].timeoutArg = Some(1000)
    /\ calls["getTaskById"] = 1 /\ FetchedOk /\ ~FetchedReady
    /\ error.statusCode = 408 /\ Elapsed = 2000

\* A step of this run that issued a list, create or update comment request
CommentRequestStep ==
    /\ parked' = parked /\ runNo' = runNo
    /\ \E op \in GhOps : ghCalls'[op] > ghCalls[op]

\* C37: the notification comment is attempted only on the create path with the
\* comment toggle true: a comment request is issued only after this run created
\* a task, found no existing one and has the toggle true; a run that ends having
\* reused a task (created = false), or with the toggle false, has issued no
\* list, create or update comment request.
C37_CommentOnlyOnCreate ==
    /\ [][CommentRequestStep =>
            /\ pc \in {"comment", "commentWrite"} /\ inputs.commentOnIssue = Some(TRUE)
            /\ IsDefined(createdTask) /\ ~IsDefined(existingTask)
            /\ calls["createTask"] = 1 /\ calls["sendInput"] = 0]_vars
    /\ []((pc = "done" /\ (~outputs[1].taskCreated \/ inputs.commentOnIssue = Some(FALSE)))
            => (ghCalls = NoGhCalls /\ ghLast = Undefined))
    /\ []((IsDefined(existingTask) \/ inputs.commentOnIssue = Some(FALSE))
            => ghCalls = NoGhCalls)

\* A run with the toggle true reused an existing task and made no comment request
C37_Witness ==
    /\ pc = "done" /\ ~outputs[1].taskCreated /\ IsDefined(existingTask)
    /\ inputs.commentOnIssue = Some(TRUE) /\ calls["sendInput"] = 1
    /\ ghCalls = NoGhCalls

\* A run with the toggle false created a task and made no comment request
C37_WitnessToggleOff ==
    /\ pc = "done" /\ outputs[1].taskCreated /\ inputs.commentOnIssue = Some(FALSE)
    /\ calls["createTask"] = 1 /\ ghCalls = NoGhCalls

\* A run with the toggle true created a task and made its comment requests
C37_WitnessCommented ==
    /\ pc = "done" /\ outputs[1].taskCreated /\ inputs.commentOnIssue = Some(TRUE)
    /\ ghCalls["listComments"] = 1 /\ ghCalls["createComment"] + ghCalls["updateComment"] = 1

\* A step of commentOnIssue in which the list request, or the update or create
\* request after it, failed
CommentFailureStep ==
    /\ pc \in {"comment", "commentWrite"} /\ parked' = parked /\ ghLast' # ghLast
    /\ IsDefined(ghLast') /\ (~ghLast'[1].listOk \/ ~ghLast'[1].writeOk)

\* C38: a failure while listing, updating or creating the notification comment
\* is caught and does not fail the run: the run ends done with no error, its
\* outputs have created = true and the URL of the created task, and the created
\* task and the tasks on the server are left as they were; no comment changes.
C38_CommentFailureCaught ==
    /\ [][CommentFailureStep =>
            /\ pc' = "done" /\ error' = NoError /\ error = NoError
            /\ IsDefined(outputs') /\ outputs'[1].taskCreated
            /\ outputs'[1].taskUrl =
                 GenerateTaskUrl(inputs.coderURL, coderUser[1].username, createdTask[1].id)
            /\ outputs'[1].coderUsername = coderUser[1].username
            /\ outputs'[1].taskName = taskName[1]
            /\ createdTask' = createdTask /\ remoteTasks' = remoteTasks
            /\ calls' = calls /\ ghComments' = ghComments]_vars
    /\ []((pc = "failed" /\ caller = "run") => ghCalls = NoGhCalls)

\* The list request failed and the run ended done with created = true
C38_Witness ==
    /\ pc = "done" /\ IsDefined(ghLast) /\ ~ghLast[1].listOk
    /\ ghCalls["listComments"] = 1
    /\ ghCalls["createComment"] = 0 /\ ghCalls["updateComment"] = 0
    /\ outputs[1].taskCreated /\ outputs[1].taskUrl = ghLast[1].url
    /\ error = NoError /\ IsDefined(createdTask)

\* The create request failed after a good list and the run ended done
C38_WitnessCreate ==
    /\ pc = "done" /\ IsDefined(ghLast) /\ ghLast[1].listOk /\ ~ghLast[1].writeOk
    /\ ghCalls["createComment"] = 1 /\ outputs[1].taskCreated /\ error = NoError

\* The update request failed after a good list and the run ended done
C38_WitnessUpdate ==
    /\ pc = "done" /\ IsDefined(ghLast) /\ ghLast[1].listOk /\ ~ghLast[1].writeOk
    /\ ghCalls["updateComment"] = 1 /\ outputs[1].taskCreated /\ error = NoError

====
